---- MODULE Spec2Model ----
(***************************************************************************)
(* Pireader: the e-reader's ingestion / caching pipeline, its reading      *)
(* session and its bookmarks.                                              *)
(*                                                                         *)
(* book.py     extract_text_fast, process_full, processing_queue           *)
(* main.py     CompleteEReader.load_book, on_book_select,                  *)
(*             refresh_current_book, check_background_processing,          *)
(*             on_page_change, on_chapter_select, shutdown                 *)
(* bookmarks.py BookmarkManager.load_bookmark, save_bookmark_async         *)
(* controls.py FourButtonControls, the button state machine                *)
(*                                                                         *)
(* Specifications: Spec (the pipeline under two foreground threads and a   *)
(* changing books directory), FairSpec (the pipeline on unchanging         *)
(* documents, with fair scheduling), SessionSpec (one session with the     *)
(* last book: page turns, bookmark saves, shutdown), NavigationSpec (the   *)
(* session with chapter selections too), LayoutSpec (one text through      *)
(* paginate_initial and paginate_full), CleanSpec (one string through      *)
(* clean_text, twice), ChapterSpec (one document through                   *)
(* extract_chapters_from_epub), PassSpec (the content items of one         *)
(* document through the quick pass and the full pass), ControlsSpec (the   *)
(* button state machine under button events and list updates).             *)
(*                                                                         *)
(* Threads of the program: the main thread (main(): the first load_book,   *)
(* then the polling loop of run()), the button thread                      *)
(* (FourButtonControls._monitor_buttons, which runs every callback), one   *)
(* daemon thread per started full pass (process_full) and one per bookmark *)
(* save.  A step of the model is a block of code between two points where  *)
(* another thread can observe or change shared state (the cache directory, *)
(* the document files, the queue, the reader's fields).                    *)
(*                                                                         *)
(* In the first four specifications a document is abstracted to an        *)
(* ordered list of one-word paragraphs, one per content item, and the page *)
(* geometry to one line per page; the next four take the functions of      *)
(* book.py one by one, on inputs in full detail; the last one takes        *)
(* controls.py alone.                                                      *)
(***************************************************************************)
EXTENDS Integers, Sequences, FiniteSets, TLC

(* ---------------------------- bounds ----------------------------------- *)
\* calls of extract_text_fast in one run
MaxOpens == 2
\* changes made to the document files from outside the program
MaxFsChanges == 1
\* content items (= words = full pages) of the largest document
MaxDocPages == 3
\* stands for the quick pass's item cap (30 items)
QuickItems == 2
\* stands for paginate_initial's line budget (50 pages of lines)
MaxInitialLines == 2
\* calls of save_bookmark_async in one run
MaxSaves == 2

Paths == {"a.epub", "b.epub"}
Threads == {"main", "button"}

VARIABLES
    fs,                \* path -> stat and content of the document file
    fs_changes,        \* number of outside changes so far
    cache,             \* cache directory: file name -> file
    processing_queue,  \* book.processing_queue
    book_path,         \* CompleteEReader.book_path
    pages,             \* CompleteEReader.pages
    chapters,          \* CompleteEReader.chapters
    current_page,      \* CompleteEReader.current_page
    fg,                \* thread -> position of the main / button thread
    opens,             \* one record per extract_text_fast call and its process_full thread
    bm_cache,          \* BookmarkManager._cache
    bm_file,           \* persisted bookmark records
    saves              \* the save threads of save_bookmark_async, in call order

vars == <<fs, fs_changes, cache, processing_queue, book_path, pages, chapters,
          current_page, fg, opens, bm_cache, bm_file, saves>>

Min(a, b) == IF a <= b THEN a ELSE b
Max(a, b) == IF a >= b THEN a ELSE b

\* a word of text: a string, tagged with the document version and position it comes from
Word(s, m, i) == <<s, m, i>>

(* ------------------------- document files ------------------------------ *)
\* a path with no file
Missing == [st_mtime |-> 0, st_size |-> 0, valid |-> FALSE]

exists(path) == fs[path].st_mtime > 0

\* epub.read_epub(path) succeeds
readable(path) == exists(path) /\ fs[path].valid

\* The plain text of the content items of a document, in document order:
\* item i is the one-word paragraph Word(path, mtime, i).
DocItems(path) == [i \in 1..fs[path].st_size |-> Word(path, fs[path].st_mtime, i)]

\* extract_chapters_from_epub, abstracted: one title per document version
extract_chapters_from_epub(path) ==
    IF readable(path) /\ fs[path].st_size > 0
    THEN <<Word("title", path, fs[path].st_mtime)>>
    ELSE << >>

(* ----------------------------- layout ---------------------------------- *)
\* paginate_full at one line per page: every word is a line and a page;
\* no lines gives the empty list.
paginate_full(text) == [i \in 1..Len(text) |-> <<text[i]>>]

\* paginate_initial: stops collecting lines at max_initial_lines; no lines
\* gives the placeholder page.
paginate_initial(text) ==
    IF Len(text) = 0 THEN << <<Word("Loading...", 0, 0)>> >>
    ELSE [i \in 1..Min(Len(text), MaxInitialLines) |-> <<text[i]>>]

\* the quick pass's loop over the items: break after the item cap
QuickText(path) == SubSeq(DocItems(path), 1, Min(fs[path].st_size, QuickItems))

(* --------------------------- cache files ------------------------------- *)
\* a cache file name that leaves the modification time out
cache_file_NoMtime(path, stat) == <<path, <<0, stat.st_size>> >>

\* the string that is hashed into the cache file name by extract_text_fast:
\* f"{path}_{st_mtime}_{st_size}"; md5 is taken to be injective
cache_file(path, stat) == <<path, <<stat.st_mtime, stat.st_size>> >>

\* the string hashed by refresh_current_book: the path alone
refresh_cache_file(path) == <<path, << >> >>

NoData == [text |-> << >>, pages |-> << >>, chapters |-> << >>,
           partial |-> FALSE, book_path |-> ""]

\* A file of the cache directory.  st = "ok": a complete pickle; "writing":
\* truncated by a writer (w) that has not finished; "corrupt": unreadable.
\* clash: another writer had the file open when w truncated it.
OkFile(data) == [st |-> "ok", w |-> 0, clash |-> FALSE, data |-> data]
CorruptFile == [st |-> "corrupt", w |-> 0, clash |-> FALSE, data |-> NoData]
WritingFile(w, clash) == [st |-> "writing", w |-> w, clash |-> clash, data |-> NoData]

\* what the try block of the cache check sees in the file
Seen(key) ==
    IF key \notin DOMAIN cache THEN "absent"
    ELSE IF cache[key].st = "writing" THEN "half"
    ELSE IF cache[key].st = "corrupt" THEN "corrupt"
    ELSE IF cache[key].data.partial THEN "partial" ELSE "full"

\* gzip.open(cache_file, 'wb') by writer w: the file is truncated
Truncate(key, w) ==
    [k \in DOMAIN cache \cup {key} |->
        IF k = key
        THEN WritingFile(w, key \in DOMAIN cache /\ cache[key].st = "writing")
        ELSE cache[k]]

\* the files that pickle.dump + close by writer w can leave behind
DumpResults(key, w, data) ==
    IF key \in DOMAIN cache /\ cache[key].st = "writing" /\ cache[key].w = w
    THEN IF cache[key].clash THEN {OkFile(data), CorruptFile} ELSE {OkFile(data)}
    ELSE IF key \in DOMAIN cache /\ cache[key].st = "writing"
         THEN {cache[key]}
         ELSE {OkFile(data), CorruptFile}

\* the files that a failed pickle.dump by writer w can leave behind
DumpFailure(key, w) ==
    IF key \in DOMAIN cache /\ cache[key].st = "writing" /\ cache[key].w # w
    THEN cache[key]
    ELSE CorruptFile

SetFile(key, file) == [k \in DOMAIN cache \cup {key} |-> IF k = key THEN file ELSE cache[k]]

(* ------------------------ extract_text_fast ---------------------------- *)
\* the return statement of the cache hit
CachedReturn(data) == [text |-> data.text, pages |-> data.pages, chapters |-> data.chapters]

\* the return statement of the except branch
ErrorReturn == [text |-> <<Word("Error loading book: e", 0, 0)>>,
                pages |-> << <<Word("Error loading book", 0, 0)>> >>,
                chapters |-> << >>]

NoReturn == [text |-> << >>, pages |-> << >>, chapters |-> << >>]

\* no message taken from processing_queue
NoResult == [book_path |-> "", pages |-> << >>, chapters |-> << >>]

\* cache_data of the quick pass, from the document as it is read now
QuickData(path) ==
    [text |-> QuickText(path),
     pages |-> paginate_initial(QuickText(path)),
     chapters |-> extract_chapters_from_epub(path),
     partial |-> TRUE,
     book_path |-> path]

\* cache_data.update(...) of process_full, from the document as it is re-read now
FullData(cache_data, path) ==
    [cache_data EXCEPT !.text = DocItems(path),
                       !.pages = paginate_full(DocItems(path)),
                       !.partial = FALSE]

\* a cache check that never returns the cached artifact
IsHit_Never(seen) == FALSE

\* "if not cached_data.get('partial', False): return ..."
IsHit(seen) == seen = "full"

\* a cache check without the except branch: an unreadable file raises
CacheTry_NoExcept(seen) ==
    IF seen \in {"corrupt", "half"} THEN "raised"
    ELSE IF IsHit(seen) THEN "cached" ELSE "running"

\* lines 99-109: how the cache check ends.  The bare except turns every
\* failure to read the file into "re-processing".
CacheTry(seen) == IF IsHit(seen) THEN "cached" ELSE "running"

\* where the call goes on after the cache check
AfterCheck(outcome) ==
    IF outcome = "cached" THEN "assign"
    ELSE IF outcome = "raised" THEN "crashed"
    ELSE "quick"

\* writer identities of the two writers of one open
FgWriter(i) == 2 * i - 1
BgWriter(i) == 2 * i

NewOpen(t, path, via) ==
    [path |-> path, via |-> via, thread |-> t,
     cache_file |-> refresh_cache_file(""), seen |-> "none", seen_data |-> NoData,
     full_before |-> exists(path) /\ Seen(cache_file(path, fs[path])) = "full",
     doc_failed |-> FALSE, outcome |-> "running", ret |-> NoReturn,
     cache_data |-> NoData, stored_partial |-> FALSE,
     bg |-> "none", stored_full |-> FALSE, published |-> 0]

\* the process keeps running until the main thread dies of an exception or
\* returns, or shutdown() ends it
Alive == fg["main"].pc \notin {"crashed", "exited", "halted"}

(* ----------------------------- bookmarks ------------------------------- *)
\* A file of the bookmark directory.  st = "absent": no file; "ok": a JSON
\* record; "writing": truncated by open(.., 'w'), nothing written yet;
\* "corrupt": not parsable.
NoBookmark == [st |-> "absent", book_path |-> "", page_num |-> 0]
BookmarkRecord(path, page_num) == [st |-> "ok", book_path |-> path, page_num |-> page_num]
WritingBookmark == [st |-> "writing", book_path |-> "", page_num |-> 0]
CorruptBookmark == [st |-> "corrupt", book_path |-> "", page_num |-> 0]

\* a load that does not compare the record's book_path
RecordFound_AnyBook(path) == bm_file[path].st = "ok"

\* lines 26-36 of load_bookmark: the page of the file's record, if the file
\* exists, parses and names this book
RecordFound(path) == bm_file[path].st = "ok" /\ bm_file[path].book_path = path

\* BookmarkManager.load_bookmark: the value returned
load_bookmark(path) ==
    IF path \in DOMAIN bm_cache THEN bm_cache[path]
    ELSE IF RecordFound(path) THEN bm_file[path].page_num
    ELSE 1

\* ... and its write of self._cache (line 33)
load_bookmark_cache(path) ==
    IF path \notin DOMAIN bm_cache /\ RecordFound(path)
    THEN [p \in DOMAIN bm_cache \cup {path} |->
            IF p = path THEN bm_file[path].page_num ELSE bm_cache[p]]
    ELSE bm_cache

\* save_bookmark_async: starts the save thread; saves lists the threads in
\* the order of the calls
save_bookmark_async(path, page_num) ==
    Append(saves, [book_path |-> path, page_num |-> page_num, pc |-> "open"])

\* "if self.book_path and self.pages: save_bookmark_async(...)"
SaveCurrent ==
    IF book_path # "" /\ Len(pages) > 0
    THEN save_bookmark_async(book_path, current_page + 1)
    ELSE saves

\* what json.dump + close can leave in the file: the write lands at offset 0
\* of whatever the file holds; on an empty file the result is the record
DumpedBookmarks(path, record) ==
    IF bm_file[path].st = "writing" THEN {record} ELSE {record, CorruptBookmark}

\* save(), line 50: open(bookmark_path, 'w') truncates the file
SaveOpen(k) ==
    /\ Alive
    /\ k \in DOMAIN saves /\ saves[k].pc = "open"
    /\ bm_file' = [bm_file EXCEPT ![saves[k].book_path] = WritingBookmark]
    /\ saves' = [saves EXCEPT ![k].pc = "dump"]
    /\ UNCHANGED <<fs, fs_changes, cache, processing_queue, book_path, pages, chapters,
                   current_page, fg, opens, bm_cache>>

\* save(), line 51: json.dump and the close of the file
SaveDump(k) ==
    /\ Alive
    /\ k \in DOMAIN saves /\ saves[k].pc = "dump"
    /\ \E file \in DumpedBookmarks(saves[k].book_path,
                                   BookmarkRecord(saves[k].book_path, saves[k].page_num)) :
          bm_file' = [bm_file EXCEPT ![saves[k].book_path] = file]
    /\ saves' = [saves EXCEPT ![k].pc = "cache"]
    /\ UNCHANGED <<fs, fs_changes, cache, processing_queue, book_path, pages, chapters,
                   current_page, fg, opens, bm_cache>>

\* the save thread stands at line 52
MayCache(k) == saves[k].pc = "cache"

\* save(), line 52: self._cache[book_path] = page_num; the thread ends
SaveCache(k) ==
    /\ Alive
    /\ k \in DOMAIN saves /\ MayCache(k)
    /\ bm_cache' = [p \in DOMAIN bm_cache \cup {saves[k].book_path} |->
                      IF p = saves[k].book_path THEN saves[k].page_num ELSE bm_cache[p]]
    /\ saves' = [saves EXCEPT ![k].pc = "done"]
    /\ UNCHANGED <<fs, fs_changes, cache, processing_queue, book_path, pages, chapters,
                   current_page, fg, opens, bm_file>>

(* ------------------------ the callers of the open ---------------------- *)
\* the path recorded in last_book.json by the previous run
LastBook == "a.epub"

\* BookManager.get_last_book: the last book if its file exists, else the
\* first book of the directory
get_last_book ==
    IF exists(LastBook) THEN LastBook ELSE CHOOSE p \in Paths : p # LastBook

\* main(): reader.load_book(), lines 61-79 up to the call of extract_text_fast;
\* with no book at all main() returns and the process ends
MainLoadBook ==
    /\ Alive
    /\ fg["main"].pc = "init"
    /\ Len(opens) < MaxOpens
    /\ IF exists(get_last_book)
       THEN /\ book_path' = get_last_book
            /\ opens' = Append(opens, NewOpen("main", get_last_book, "load"))
            /\ fg' = [fg EXCEPT !["main"] = [pc |-> "stat", id |-> Len(opens) + 1, result |-> NoResult]]
       ELSE /\ fg' = [fg EXCEPT !["main"].pc = "exited"]
            /\ UNCHANGED <<book_path, opens>>
    /\ UNCHANGED <<fs, fs_changes, cache, processing_queue, pages, chapters,
                   current_page, bm_cache, bm_file, saves>>

\* on_book_select: saves the bookmark of the current book, then load_book up
\* to the call of extract_text_fast (or its "return False")
on_book_select(p) ==
    /\ Alive
    /\ fg["button"].pc = "idle"
    /\ Len(opens) < MaxOpens
    /\ Len(saves) < MaxSaves
    /\ saves' = SaveCurrent
    /\ IF exists(p)
       THEN /\ book_path' = p
            /\ opens' = Append(opens, NewOpen("button", p, "load"))
            /\ fg' = [fg EXCEPT !["button"] = [pc |-> "stat", id |-> Len(opens) + 1, result |-> NoResult]]
       ELSE UNCHANGED <<book_path, opens, fg>>
    /\ UNCHANGED <<fs, fs_changes, cache, processing_queue, pages, chapters,
                   current_page, bm_cache, bm_file>>

\* refresh_current_book, lines 140-155: removes the file named by the hash of
\* the path alone, then calls extract_text_fast(self.book_path)
refresh_current_book ==
    /\ Alive
    /\ fg["button"].pc = "idle"
    /\ Len(opens) < MaxOpens
    /\ book_path # ""
    /\ cache' = [k \in DOMAIN cache \ {refresh_cache_file(book_path)} |-> cache[k]]
    /\ opens' = Append(opens, NewOpen("button", book_path, "refresh"))
    /\ fg' = [fg EXCEPT !["button"] = [pc |-> "stat", id |-> Len(opens) + 1, result |-> NoResult]]
    /\ UNCHANGED <<fs, fs_changes, processing_queue, book_path, pages, chapters,
                   current_page, bm_cache, bm_file, saves>>

(* ---------------- extract_text_fast, step by step ---------------------- *)
\* lines 93-109: os.stat, the cache file name, the cache check.  A missing
\* file makes os.stat raise outside every try block: the calling thread dies.
ExtractStat(t) ==
    /\ Alive
    /\ fg[t].pc = "stat"
    /\ LET i == fg[t].id
           path == opens[i].path
           key == cache_file(path, fs[path])
           seen == Seen(key)
       IN  IF ~exists(path)
           THEN /\ opens' = [opens EXCEPT ![i].outcome = "raised", ![i].doc_failed = TRUE]
                /\ fg' = [fg EXCEPT ![t].pc = AfterCheck("raised")]
           ELSE /\ opens' = [opens EXCEPT
                       ![i].cache_file = key,
                       ![i].seen = seen,
                       ![i].seen_data = IF seen \in {"partial", "full"}
                                        THEN cache[key].data ELSE NoData,
                       ![i].outcome = CacheTry(seen),
                       ![i].ret = IF CacheTry(seen) = "cached"
                                  THEN CachedReturn(cache[key].data)
                                  ELSE NoReturn]
                /\ fg' = [fg EXCEPT ![t].pc = AfterCheck(CacheTry(seen))]
    /\ UNCHANGED <<fs, fs_changes, cache, processing_queue, book_path, pages, chapters,
                   current_page, bm_cache, bm_file, saves>>

\* lines 113-163: read_epub, the quick pass, paginate_initial, and
\* gzip.open(cache_file, 'wb'), which truncates the cache file
ExtractQuick(t) ==
    /\ Alive
    /\ fg[t].pc = "quick"
    /\ LET i == fg[t].id
           path == opens[i].path
       IN  IF ~readable(path)
           THEN \* read_epub raises: the except branch of line 221
                /\ opens' = [opens EXCEPT ![i].outcome = "error", ![i].ret = ErrorReturn,
                                          ![i].doc_failed = TRUE]
                /\ fg' = [fg EXCEPT ![t].pc = "assign"]
                /\ UNCHANGED cache
           ELSE /\ opens' = [opens EXCEPT ![i].cache_data = QuickData(path)]
                /\ cache' = Truncate(opens[i].cache_file, FgWriter(i))
                /\ fg' = [fg EXCEPT ![t].pc = "dump"]
    /\ UNCHANGED <<fs, fs_changes, processing_queue, book_path, pages, chapters,
                   current_page, bm_cache, bm_file, saves>>

\* lines 164-219: pickle.dump completes, the thread of process_full is
\* started, the quick result is returned
ExtractDump(t) ==
    /\ Alive
    /\ fg[t].pc = "dump"
    /\ LET i == fg[t].id
           d == opens[i].cache_data
       IN  /\ \E file \in DumpResults(opens[i].cache_file, FgWriter(i), d) :
                 cache' = SetFile(opens[i].cache_file, file)
           /\ opens' = [opens EXCEPT
                  ![i].stored_partial = TRUE,
                  ![i].bg = "read",
                  ![i].outcome = "partial",
                  ![i].ret = [text |-> d.text, pages |-> d.pages, chapters |-> d.chapters]]
           /\ fg' = [fg EXCEPT ![t].pc = "assign"]
    /\ UNCHANGED <<fs, fs_changes, processing_queue, book_path, pages, chapters,
                   current_page, bm_cache, bm_file, saves>>

\* line 164 raises (disk full, I/O error): the except branch of line 221
\* returns the error page, the cache file stays as the failed write left it
ExtractDumpFails(t) ==
    /\ Alive
    /\ fg[t].pc = "dump"
    /\ LET i == fg[t].id
       IN  /\ cache' = SetFile(opens[i].cache_file, DumpFailure(opens[i].cache_file, FgWriter(i)))
           /\ opens' = [opens EXCEPT ![i].outcome = "error", ![i].ret = ErrorReturn]
           /\ fg' = [fg EXCEPT ![t].pc = "assign"]
    /\ UNCHANGED <<fs, fs_changes, processing_queue, book_path, pages, chapters,
                   current_page, bm_cache, bm_file, saves>>

\* a resume without the lower bound
Resume_NoFloor(saved_page, n) == Min(saved_page - 1, n - 1)

\* "max(0, min(saved_page - 1, len(pages) - 1))" of load_book
Resume(saved_page, n) == Max(0, Min(saved_page - 1, n - 1))

\* the caller takes the result: load_book lines 80-89, refresh lines 156-161
Assign(t) ==
    /\ Alive
    /\ fg[t].pc = "assign"
    /\ LET i == fg[t].id
           path == opens[i].path
       IN  /\ pages' = opens[i].ret.pages
           /\ chapters' = opens[i].ret.chapters
           /\ IF opens[i].via = "refresh"
              THEN /\ current_page' = 0
                   /\ UNCHANGED bm_cache
              ELSE /\ current_page' = Resume(load_bookmark(path), Len(opens[i].ret.pages))
                   /\ bm_cache' = load_bookmark_cache(path)
    /\ fg' = [fg EXCEPT ![t].pc = IF t = "main" THEN "run" ELSE "idle"]
    /\ UNCHANGED <<fs, fs_changes, cache, processing_queue, book_path, opens, bm_file, saves>>

(* --------------------------- process_full ------------------------------ *)
\* lines 168-200: re-read the document, extract every item, paginate_full,
\* cache_data.update, gzip.open(cache_file, 'wb')
ProcessFullRead(i) ==
    /\ Alive
    /\ i \in DOMAIN opens /\ opens[i].bg = "read"
    /\ readable(opens[i].path)
    /\ opens' = [opens EXCEPT ![i].cache_data = FullData(opens[i].cache_data, opens[i].path),
                              ![i].bg = "dump"]
    /\ cache' = Truncate(opens[i].cache_file, BgWriter(i))
    /\ UNCHANGED <<fs, fs_changes, processing_queue, book_path, pages, chapters,
                   current_page, fg, bm_cache, bm_file, saves>>

\* an exception before the cache file is opened (read_epub on a document
\* that is gone or broken, the layout, gzip.open): the thread ends
ProcessFullReadFails(i) ==
    /\ Alive
    /\ i \in DOMAIN opens /\ opens[i].bg = "read"
    /\ opens' = [opens EXCEPT ![i].bg = "failed"]
    /\ UNCHANGED <<fs, fs_changes, cache, processing_queue, book_path, pages, chapters,
                   current_page, fg, bm_cache, bm_file, saves>>

\* line 201: pickle.dump completes and the file is closed
ProcessFullDump(i) ==
    /\ Alive
    /\ i \in DOMAIN opens /\ opens[i].bg = "dump"
    /\ \E file \in DumpResults(opens[i].cache_file, BgWriter(i), opens[i].cache_data) :
          cache' = SetFile(opens[i].cache_file, file)
    /\ opens' = [opens EXCEPT ![i].bg = "stored", ![i].stored_full = TRUE]
    /\ UNCHANGED <<fs, fs_changes, processing_queue, book_path, pages, chapters,
                   current_page, fg, bm_cache, bm_file, saves>>

\* line 201 raises: the thread ends, the file stays as the failed write left it
ProcessFullDumpFails(i) ==
    /\ Alive
    /\ i \in DOMAIN opens /\ opens[i].bg = "dump"
    /\ cache' = SetFile(opens[i].cache_file, DumpFailure(opens[i].cache_file, BgWriter(i)))
    /\ opens' = [opens EXCEPT ![i].bg = "failed"]
    /\ UNCHANGED <<fs, fs_changes, processing_queue, book_path, pages, chapters,
                   current_page, fg, bm_cache, bm_file, saves>>

\* the message of processing_queue.put (callback is None in every call)
Completion(i) ==
    [book_path |-> opens[i].path,
     pages |-> opens[i].cache_data.pages,
     chapters |-> opens[i].cache_data.chapters]

\* publishing without waiting for the write of the cache file
MayPublish_Early(i) == opens[i].bg \in {"dump", "stored"}

\* a thread of process_full may publish
MayPublish(i) == opens[i].bg = "stored"

\* lines 206-214
ProcessFullPublish(i) ==
    /\ Alive
    /\ i \in DOMAIN opens /\ MayPublish(i)
    /\ processing_queue' = Append(processing_queue, Completion(i))
    /\ opens' = [opens EXCEPT ![i].bg = "done", ![i].published = @ + 1]
    /\ UNCHANGED <<fs, fs_changes, cache, book_path, pages, chapters,
                   current_page, fg, bm_cache, bm_file, saves>>

(* ------------------- check_background_processing ----------------------- *)
\* "result and result['book_path'] == self.book_path"
Honored(result) == result.book_path = book_path

\* a swap that goes back to the first page
Adjust_Reset(page, n) == 0

\* lines 126-127
Adjust(page, n) == IF page >= n THEN n - 1 ELSE page

\* a get that leaves the message on the queue
Remaining_Peek(queue) == queue

\* check_processing_complete: get_nowait takes the message off the queue
Remaining(queue) == Tail(queue)

\* run() polls on the main thread once load_book has returned.
\* Lines 117-120: get_nowait and the comparison with self.book_path; a
\* message of another document is dropped.
check_background_processing ==
    /\ Alive
    /\ fg["main"].pc = "run"
    /\ Len(processing_queue) > 0
    /\ LET result == Head(processing_queue)
       IN  /\ processing_queue' = Remaining(processing_queue)
           /\ fg' = IF Honored(result)
                    THEN [fg EXCEPT !["main"].pc = "swap", !["main"].result = result]
                    ELSE fg
    /\ UNCHANGED <<fs, fs_changes, cache, book_path, pages, chapters, current_page,
                   opens, bm_cache, bm_file, saves>>

\* lines 121-127: the page set is replaced; the button thread may have run
\* between the comparison of line 119 and these assignments
CheckSwap ==
    /\ Alive
    /\ fg["main"].pc = "swap"
    /\ pages' = fg["main"].result.pages
    /\ chapters' = fg["main"].result.chapters
    /\ current_page' = Adjust(current_page, Len(fg["main"].result.pages))
    /\ fg' = [fg EXCEPT !["main"].pc = "run", !["main"].result = NoResult]
    /\ UNCHANGED <<fs, fs_changes, cache, processing_queue, book_path, opens,
                   bm_cache, bm_file, saves>>

(* ------------------------- the outside world --------------------------- *)
\* the document file is replaced: new modification time, new content
ModifyDoc(p, size, valid) ==
    /\ Alive
    /\ fs_changes < MaxFsChanges
    /\ exists(p)
    /\ fs' = [fs EXCEPT ![p] = [st_mtime |-> fs[p].st_mtime + 1,
                                st_size |-> IF valid THEN size ELSE 0,
                                valid |-> valid]]
    /\ fs_changes' = fs_changes + 1
    /\ UNCHANGED <<cache, processing_queue, book_path, pages, chapters, current_page,
                   fg, opens, bm_cache, bm_file, saves>>

\* the document file is removed
DeleteDoc(p) ==
    /\ Alive
    /\ fs_changes < MaxFsChanges
    /\ exists(p)
    /\ fs' = [fs EXCEPT ![p] = Missing]
    /\ fs_changes' = fs_changes + 1
    /\ UNCHANGED <<cache, processing_queue, book_path, pages, chapters, current_page,
                   fg, opens, bm_cache, bm_file, saves>>

(* --------------------------- specification ----------------------------- *)
\* CompleteEReader.__init__ and an empty cache directory; the books
\* directory holds valid documents of full length
Init ==
    /\ fs = [p \in Paths |-> [st_mtime |-> 1, st_size |-> MaxDocPages, valid |-> TRUE]]
    /\ fs_changes = 0
    /\ cache = << >>
    /\ processing_queue = << >>
    /\ book_path = ""
    /\ pages = << >>
    /\ chapters = << >>
    /\ current_page = 0
    /\ fg = [t \in Threads |-> [pc |-> IF t = "main" THEN "init" ELSE "idle", id |-> 0,
                                 result |-> NoResult]]
    /\ opens = << >>
    /\ bm_cache = << >>
    /\ bm_file = [p \in Paths |-> NoBookmark]
    /\ saves = << >>

Next ==
    \/ MainLoadBook
    \/ \E p \in Paths : on_book_select(p)
    \/ refresh_current_book
    \/ \E t \in Threads : ExtractStat(t)
    \/ \E t \in Threads : ExtractQuick(t)
    \/ \E t \in Threads : ExtractDump(t)
    \/ \E t \in Threads : ExtractDumpFails(t)
    \/ \E t \in Threads : Assign(t)
    \/ \E i \in 1..MaxOpens : ProcessFullRead(i)
    \/ \E i \in 1..MaxOpens : ProcessFullReadFails(i)
    \/ \E i \in 1..MaxOpens : ProcessFullDump(i)
    \/ \E i \in 1..MaxOpens : ProcessFullDumpFails(i)
    \/ \E i \in 1..MaxOpens : ProcessFullPublish(i)
    \/ check_background_processing
    \/ CheckSwap
    \/ \E k \in 1..MaxSaves : SaveOpen(k)
    \/ \E k \in 1..MaxSaves : SaveDump(k)
    \/ \E k \in 1..MaxSaves : SaveCache(k)
    \/ \E p \in Paths, size \in 0..MaxDocPages, valid \in BOOLEAN : ModifyDoc(p, size, valid)
    \/ \E p \in Paths : DeleteDoc(p)

Spec == Init /\ [][Next]_vars

(* ----------------------------- scheduling ------------------------------ *)
\* the steps of the main thread: its load_book, then the polling of run()
MainStep ==
    \/ MainLoadBook
    \/ ExtractStat("main")
    \/ ExtractQuick("main")
    \/ ExtractDump("main")
    \/ Assign("main")
    \/ check_background_processing
    \/ CheckSwap

\* the steps of the thread of process_full started by open i
BackgroundStep(i) ==
    \/ ProcessFullRead(i)
    \/ ProcessFullDump(i)
    \/ ProcessFullPublish(i)

\* the program on documents that nothing changes and with no I/O failure
QuietNext ==
    \/ MainLoadBook
    \/ \E p \in Paths : on_book_select(p)
    \/ refresh_current_book
    \/ \E t \in Threads : ExtractStat(t)
    \/ \E t \in Threads : ExtractQuick(t)
    \/ \E t \in Threads : ExtractDump(t)
    \/ \E t \in Threads : Assign(t)
    \/ \E i \in 1..MaxOpens : ProcessFullRead(i)
    \/ \E i \in 1..MaxOpens : ProcessFullDump(i)
    \/ \E i \in 1..MaxOpens : ProcessFullPublish(i)
    \/ check_background_processing
    \/ CheckSwap
    \/ \E k \in 1..MaxSaves : SaveOpen(k)
    \/ \E k \in 1..MaxSaves : SaveDump(k)
    \/ \E k \in 1..MaxSaves : SaveCache(k)

\* every started thread of process_full and the main thread keep being
\* scheduled; the button thread waits for the user
FairSpec ==
    /\ Init /\ [][QuietNext]_vars
    /\ WF_vars(MainStep)
    /\ \A i \in 1..MaxOpens : WF_vars(BackgroundStep(i))

(* ------------------------- a reading session --------------------------- *)
\* the page changes of the reading mode: short and long press of prev / next
Deltas == {0 - 10, 0 - 1, 1, 10}

\* on_page_change(delta), called by the button thread in reading mode
on_page_change(delta) ==
    /\ Alive
    /\ fg["button"].pc = "idle"
    /\ Len(saves) < MaxSaves
    /\ LET new_page == Max(0, Min(current_page + delta, Len(pages) - 1))
       IN  IF Len(pages) > 0 /\ new_page # current_page
           THEN /\ current_page' = new_page
                /\ saves' = save_bookmark_async(book_path, new_page + 1)
           ELSE UNCHANGED <<current_page, saves>>
    /\ UNCHANGED <<fs, fs_changes, cache, processing_queue, book_path, pages, chapters,
                   fg, opens, bm_cache, bm_file>>

\* shutdown(), lines 370-373: called by the button thread (menu action) or by
\* the main thread (the finally of run()); the bookmark save is started and
\* the caller goes on to the sleeps and the display calls
shutdown(t) ==
    /\ Alive
    /\ fg[t].pc = (IF t = "main" THEN "run" ELSE "idle")
    /\ Len(saves) < MaxSaves
    /\ saves' = SaveCurrent
    /\ fg' = [fg EXCEPT ![t].pc = "shutdown"]
    /\ UNCHANGED <<fs, fs_changes, cache, processing_queue, book_path, pages, chapters,
                   current_page, opens, bm_cache, bm_file>>

\* shutdown(), lines 396-400: the system halts or sys.exit(0) ends the
\* process; the daemon threads end with it.  The sleeps before it wait for
\* no thread.
Exit ==
    /\ Alive
    /\ \E t \in Threads : fg[t].pc = "shutdown"
    /\ fg' = [fg EXCEPT !["main"].pc = "halted"]
    /\ UNCHANGED <<fs, fs_changes, cache, processing_queue, book_path, pages, chapters,
                   current_page, opens, bm_cache, bm_file, saves>>

\* page numbers found in bookmark records left by earlier runs
SavedPages == {0 - 1, 0, 2, MaxDocPages + 1}

\* the bookmark file of the last book as earlier runs (or anything else that
\* writes the bookmark directory) can have left it
LeftBookmarks ==
    {NoBookmark, CorruptBookmark}
        \cup {BookmarkRecord(p, n) : p \in Paths, n \in SavedPages}

\* the cache directory as an earlier run can have left it: empty, or with
\* the Full artifact of the last book
LeftCaches ==
    {<< >>,
     [k \in {cache_file(LastBook, fs[LastBook])} |->
         OkFile(FullData(QuickData(LastBook), LastBook))]}

\* CompleteEReader.__init__ on top of the directories of earlier runs
SessionInit ==
    /\ fs = [p \in Paths |-> [st_mtime |-> 1, st_size |-> MaxDocPages, valid |-> TRUE]]
    /\ fs_changes = 0
    /\ cache \in LeftCaches
    /\ processing_queue = << >>
    /\ book_path = ""
    /\ pages = << >>
    /\ chapters = << >>
    /\ current_page = 0
    /\ fg = [t \in Threads |-> [pc |-> IF t = "main" THEN "init" ELSE "idle", id |-> 0,
                                 result |-> NoResult]]
    /\ opens = << >>
    /\ bm_cache = << >>
    /\ \E file \in LeftBookmarks :
          bm_file = [p \in Paths |-> IF p = LastBook THEN file ELSE NoBookmark]
    /\ saves = << >>

\* one session with the last book: main() loads it and polls, the full pass
\* runs, the button thread turns pages and shuts down
SessionNext ==
    \/ MainLoadBook
    \/ \E t \in Threads : ExtractStat(t)
    \/ \E t \in Threads : ExtractQuick(t)
    \/ \E t \in Threads : ExtractDump(t)
    \/ \E t \in Threads : Assign(t)
    \/ \E i \in 1..MaxOpens : ProcessFullRead(i)
    \/ \E i \in 1..MaxOpens : ProcessFullDump(i)
    \/ \E i \in 1..MaxOpens : ProcessFullPublish(i)
    \/ check_background_processing
    \/ CheckSwap
    \/ \E delta \in Deltas : on_page_change(delta)
    \/ \E k \in 1..MaxSaves : SaveOpen(k)
    \/ \E k \in 1..MaxSaves : SaveDump(k)
    \/ \E k \in 1..MaxSaves : SaveCache(k)
    \/ \E t \in Threads : shutdown(t)
    \/ Exit
    \/ \E size \in 0..MaxDocPages : ModifyDoc(LastBook, size, TRUE)

SessionSpec == SessionInit /\ [][SessionNext]_vars

(* ------------------- navigation by page and by chapter ----------------- *)
\* on_chapter_select(chapter_index), called by the button thread from the
\* chapter menu; the page is
\* "int((chapter_index / len(self.chapters)) * len(self.pages))" with the
\* clamp of line 274, and the save is started whether the page changed or
\* not
on_chapter_select(chapter_index) ==
    /\ Alive
    /\ fg["button"].pc = "idle"
    /\ Len(saves) < MaxSaves
    /\ IF Len(chapters) > 0 /\ chapter_index < Len(chapters) /\ Len(pages) > 0
       THEN LET estimated_page ==
                    Max(0, Min((chapter_index * Len(pages)) \div Len(chapters),
                               Len(pages) - 1))
            IN  /\ current_page' = estimated_page
                /\ saves' = save_bookmark_async(book_path, estimated_page + 1)
       ELSE UNCHANGED <<current_page, saves>>
    /\ UNCHANGED <<fs, fs_changes, cache, processing_queue, book_path, pages, chapters,
                   fg, opens, bm_cache, bm_file>>

\* the session with both kinds of navigation; the chapter menu passes the
\* index of an entry, which a swap of the chapters can leave one past the
\* end of the list
NavigationNext ==
    \/ SessionNext
    \/ \E chapter_index \in 0..1 : on_chapter_select(chapter_index)

NavigationSpec == SessionInit /\ [][NavigationNext]_vars

(* ------------------------- the layout in detail ------------------------ *)
(* paginate_initial and paginate_full on texts of several paragraphs, with *)
(* measured words and pages of several lines.  (The pipeline above uses    *)
(* them at one word per line and one line per page.)                       *)
(*                                                                         *)
(* A text is the list text.split("\n") of its paragraphs, a paragraph the  *)
(* list para.split() of its words (empty for a blank or whitespace-only    *)
(* paragraph), a line the list of the words joined by single spaces (empty *)
(* for the blank line ""), a page a list of lines.                         *)

\* config.DISPLAY_WIDTH, DISPLAY_HEIGHT, DISPLAY_MARGIN (pixels)
DISPLAY_WIDTH == 300
DISPLAY_HEIGHT == 400
DISPLAY_MARGIN == 4

\* paragraphs of the longest text
MaxParagraphs == 4
\* words of the longest paragraph
MaxWords == 2
\* stands for the 50 pages of paginate_initial's line budget
BudgetPages == 2

LayoutWords == {"to", "page", "incomprehensibilities"}

\* What the layout asks of a font: the height of "Hg" (bbox[3]) and the
\* length of a line of words, here the lengths of its words plus one space
\* between two words.  The three fonts are large: they put three lines, two
\* lines and one line on the page, and the long word is wider than the
\* display in each.
BigFont ==
    [bbox3 |-> 86, space |-> 16,
     word |-> ("to" :> 80 @@ "page" :> 110 @@ "incomprehensibilities" :> 300)]
LargeFont ==
    [bbox3 |-> 111, space |-> 20,
     word |-> ("to" :> 100 @@ "page" :> 136 @@ "incomprehensibilities" :> 300)]
HugeFont ==
    [bbox3 |-> 155, space |-> 30,
     word |-> ("to" :> 140 @@ "page" :> 190 @@ "incomprehensibilities" :> 420)]
Fonts == {BigFont, LargeFont, HugeFont}

LayoutParagraphs == UNION {[1..k -> LayoutWords] : k \in 0..MaxWords}
LayoutTexts == UNION {[1..n -> LayoutParagraphs] : n \in 1..MaxParagraphs}

RECURSIVE getlength(_, _)
\* font.getlength(line) of a non-empty line
getlength(font, line) ==
    IF Len(line) = 1 THEN font.word[line[1]]
    ELSE getlength(font, SubSeq(line, 1, Len(line) - 1))
             + font.space + font.word[line[Len(line)]]

\* int(x) of the quotient num / den, den > 0: rounds towards zero
IntQuotient(num, den) ==
    IF num >= 0 THEN num \div den ELSE 0 - ((0 - num) \div den)

\* lines 303-307 (and 236-240): line_height = bbox[3] + 1, the footer takes
\* 1.5 line heights; computed in half pixels
max_lines_per_page(font) ==
    LET line_height == font.bbox3 + 1
        usable_height2 == 2 * (DISPLAY_HEIGHT - 2 * DISPLAY_MARGIN) - 3 * line_height
    IN IntQuotient(usable_height2, 2 * line_height)

\* "if line_width <= (W - 2 * margin)"
Fits(font, test_line) == getlength(font, test_line) <= DISPLAY_WIDTH - 2 * DISPLAY_MARGIN

\* a blank paragraph that appends a blank line whatever the last line is
BlankParagraph_Always(all_lines) == Append(all_lines, << >>)

\* a blank paragraph: 'if all_lines and all_lines[-1] != "": all_lines.append("")'
BlankParagraph(all_lines) ==
    IF all_lines # << >> /\ all_lines[Len(all_lines)] # << >>
    THEN Append(all_lines, << >>)
    ELSE all_lines

\* the overflow branch losing the line it should emit
Overflow_DropsLine(all_lines, current_line) == all_lines

\* the else branch of the word loop: "if current_line: all_lines.append(current_line)"
Overflow(all_lines, current_line) ==
    IF current_line # << >> THEN Append(all_lines, current_line) ELSE all_lines

RECURSIVE FullWords(_, _, _, _)
\* paginate_full's loop over the words of one paragraph, then the flush of
\* the last line
FullWords(words, current_line, all_lines, font) ==
    IF words = << >>
    THEN IF current_line # << >> THEN Append(all_lines, current_line) ELSE all_lines
    ELSE LET word == Head(words)
             test_line == Append(current_line, word)
         IN IF Fits(font, test_line)
            THEN FullWords(Tail(words), test_line, all_lines, font)
            ELSE FullWords(Tail(words), <<word>>, Overflow(all_lines, current_line), font)

RECURSIVE FullLines(_, _, _)
\* paginate_full's loop over the paragraphs: all_lines
FullLines(paragraphs, all_lines, font) ==
    IF paragraphs = << >> THEN all_lines
    ELSE LET para == Head(paragraphs)
         IN IF para = << >>
            THEN FullLines(Tail(paragraphs), BlankParagraph(all_lines), font)
            ELSE FullLines(Tail(paragraphs), FullWords(para, << >>, all_lines, font), font)

RECURSIVE InitialWords(_, _, _, _, _)
\* paginate_initial's loop over the words of one paragraph: breaks at the
\* budget, and flushes the last line only below the budget
\* (lines_collected is len(all_lines): both grow together)
InitialWords(words, current_line, all_lines, font, max_initial_lines) ==
    IF words = << >> \/ Len(all_lines) >= max_initial_lines
    THEN IF current_line # << >> /\ Len(all_lines) < max_initial_lines
         THEN Append(all_lines, current_line)
         ELSE all_lines
    ELSE LET word == Head(words)
             test_line == Append(current_line, word)
         IN IF Fits(font, test_line)
            THEN InitialWords(Tail(words), test_line, all_lines, font, max_initial_lines)
            ELSE InitialWords(Tail(words), <<word>>, Overflow(all_lines, current_line),
                              font, max_initial_lines)

RECURSIVE InitialLines(_, _, _, _)
\* paginate_initial's loop over the paragraphs: breaks at the budget
InitialLines(paragraphs, all_lines, font, max_initial_lines) ==
    IF paragraphs = << >> \/ Len(all_lines) >= max_initial_lines THEN all_lines
    ELSE LET para == Head(paragraphs)
         IN IF para = << >>
            THEN InitialLines(Tail(paragraphs), BlankParagraph(all_lines), font,
                              max_initial_lines)
            ELSE InitialLines(Tail(paragraphs),
                              InitialWords(para, << >>, all_lines, font, max_initial_lines),
                              font, max_initial_lines)

\* a page that takes every line
PageIsFull_Never(current_page_lines, max_lines) == FALSE

\* "if len(current_page_lines) >= max_lines_per_page"
PageIsFull(current_page_lines, max_lines) == Len(current_page_lines) >= max_lines

RECURSIVE SplitIntoPages(_, _, _, _)
\* "# Split into pages", the same loop in both functions: a full page is
\* closed before the next line, and a blank line that would open the next
\* page is dropped
SplitIntoPages(all_lines, done, current_page_lines, max_lines) ==
    IF all_lines = << >>
    THEN IF current_page_lines # << >> THEN Append(done, current_page_lines) ELSE done
    ELSE LET line == Head(all_lines)
         IN IF PageIsFull(current_page_lines, max_lines)
            THEN LET closed == IF current_page_lines # << >>
                               THEN Append(done, current_page_lines) ELSE done
                 IN IF line = << >>
                    THEN SplitIntoPages(Tail(all_lines), closed, << >>, max_lines)
                    ELSE SplitIntoPages(Tail(all_lines), closed, <<line>>, max_lines)
            ELSE SplitIntoPages(Tail(all_lines), done, Append(current_page_lines, line),
                                max_lines)

RECURSIVE PopBlanks(_)
\* 'while page and page[-1] == "": page.pop()'
PopBlanks(page) ==
    IF page # << >> /\ page[Len(page)] = << >>
    THEN PopBlanks(SubSeq(page, 1, Len(page) - 1))
    ELSE page

RECURSIVE CleanUp(_)
\* "# Clean up": trailing blank lines go, and a page left empty goes
CleanUp(pgs) ==
    IF pgs = << >> THEN << >>
    ELSE LET page == PopBlanks(Head(pgs))
         IN IF page # << >> THEN <<page>> \o CleanUp(Tail(pgs)) ELSE CleanUp(Tail(pgs))

\* "pages = [["Loading..."]]"
LoadingPage == << <<"Loading...">> >>

\* paginate_full(text, font)
PaginateFull(text, font) ==
    CleanUp(SplitIntoPages(FullLines(text, << >>, font), << >>, << >>,
                           max_lines_per_page(font)))

\* paginate_initial(text, font)
PaginateInitial(text, font) ==
    LET max_initial_lines == max_lines_per_page(font) * BudgetPages
        found == SplitIntoPages(InitialLines(text, << >>, font, max_initial_lines),
                                << >>, << >>, max_lines_per_page(font))
    IN IF found = << >> THEN <<LoadingPage>> ELSE found

\* One text on its way through both layouts, as when a document short
\* enough for the quick pass is opened: extract_text_fast lays the text out
\* with paginate_initial, process_full lays it out again with paginate_full.
LayoutCall(text, font) ==
    [text |-> text, font |-> font, pc |-> "start", initial |-> << >>, full |-> << >>]

\* "pages = paginate_initial(text, font)"
QuickLayout ==
    /\ Len(opens) = 1
    /\ opens[1].pc = "start"
    /\ opens' = [opens EXCEPT ![1].pc = "quick",
                              ![1].initial = PaginateInitial(opens[1].text, opens[1].font)]
    /\ UNCHANGED <<fs, fs_changes, cache, processing_queue, book_path, pages, chapters,
                   current_page, fg, bm_cache, bm_file, saves>>

\* "full_pages = paginate_full(full_text_clean, font)"
FullLayout ==
    /\ Len(opens) = 1
    /\ opens[1].pc = "quick"
    /\ opens' = [opens EXCEPT ![1].pc = "full",
                              ![1].full = PaginateFull(opens[1].text, opens[1].font)]
    /\ UNCHANGED <<fs, fs_changes, cache, processing_queue, book_path, pages, chapters,
                   current_page, fg, bm_cache, bm_file, saves>>

\* every text and every font, before the first layout
LayoutInit ==
    /\ fs = [p \in Paths |-> [st_mtime |-> 1, st_size |-> MaxDocPages, valid |-> TRUE]]
    /\ fs_changes = 0
    /\ cache = << >>
    /\ processing_queue = << >>
    /\ book_path = ""
    /\ pages = << >>
    /\ chapters = << >>
    /\ current_page = 0
    /\ fg = [t \in Threads |-> [pc |-> IF t = "main" THEN "init" ELSE "idle", id |-> 0,
                                 result |-> NoResult]]
    /\ \E text \in LayoutTexts, font \in Fonts : opens = <<LayoutCall(text, font)>>
    /\ bm_cache = << >>
    /\ bm_file = [p \in Paths |-> NoBookmark]
    /\ saves = << >>

LayoutNext ==
    \/ QuickLayout
    \/ FullLayout

LayoutSpec == LayoutInit /\ [][LayoutNext]_vars

(* ------------------------------ clean_text ----------------------------- *)
(* A string is the list of its characters.  The characters stand for the   *)
(* classes the five patterns tell apart: "a" a word character (\w), "t" a  *)
(* word character of [tsmd], " " white space other than the line feed,     *)
(* "\n" the line feed, and the apostrophe, the colon and the full stop.    *)

\* characters of the longest string over all the classes
MaxChars == 6
\* characters of the longest string of words, apostrophes and blanks
MaxQuoteChars == 7

Chars == {"a", "t", "'", " ", "\n", ":", "."}
WordChars == {"a", "t"}
Tsmd == {"t"}
WhiteSpace == {" ", "\n"}

\* the inputs: every string over the seven classes up to MaxChars, and the
\* longer ones over the classes of the first pattern
Strings ==
    UNION {[1..n -> Chars] : n \in 0..MaxChars}
        \cup UNION {[1..n -> {"a", "'", " "}] : n \in 0..MaxQuoteChars}

RECURSIVE SpaceRunEnd(_, _)
\* the index after the longest run of white space that starts at i (\s+
\* and \s{2,} are greedy, and what follows them in a pattern is no white space)
SpaceRunEnd(s, i) ==
    IF i <= Len(s) /\ s[i] \in WhiteSpace THEN SpaceRunEnd(s, i + 1) ELSE i

\* the line feeds of s[i..e]
LineFeeds(s, i, e) == {k \in i..e : s[k] = "\n"}

\* The index of the last character of the match of pattern r that starts at
\* i, and 0 when the pattern does not match there.
\*   1  (\w)'\s+(\w)            2  (\w)'\s+([tsmd])\b
\*   3  :\s+      4  \.\s{2,}   5  \n\s*\n\s*\n+
\* Pattern 5 lies within one run of white space and needs three line feeds;
\* its greedy \s* reach to the last line feed of the run.
MatchEnd(r, s, i) ==
    LET j == SpaceRunEnd(s, i + 2)
        e == SpaceRunEnd(s, i + 1) - 1
    IN CASE r \in {1, 2} ->
              IF /\ s[i] \in WordChars
                 /\ i + 1 <= Len(s) /\ s[i + 1] = "'"
                 /\ j > i + 2
                 /\ j <= Len(s) /\ s[j] \in (IF r = 1 THEN WordChars ELSE Tsmd)
                 /\ r = 2 => (j = Len(s) \/ s[j + 1] \notin WordChars)
              THEN j ELSE 0
         [] r = 3 -> IF s[i] = ":" /\ e >= i + 1 THEN e ELSE 0
         [] r = 4 -> IF s[i] = "." /\ e >= i + 2 THEN e ELSE 0
         [] r = 5 ->
              IF s[i] = "\n" /\ Cardinality(LineFeeds(s, i, e)) >= 3
              THEN CHOOSE k \in LineFeeds(s, i, e) : \A l \in LineFeeds(s, i, e) : l <= k
              ELSE 0

\* the replacement of the match s[i..e] of pattern r
Replacement(r, s, i, e) ==
    CASE r \in {1, 2} -> <<s[i], "'", s[e]>>
      [] r = 3 -> <<":", " ">>
      [] r = 4 -> <<".", " ">>
      [] r = 5 -> <<"\n", "\n">>

RECURSIVE sub(_, _, _, _)
\* re.sub(pattern r, replacement, s) from index i on: the leftmost match is
\* replaced and the search goes on behind it, so matches do not overlap
sub(r, s, i, out) ==
    IF i > Len(s) THEN out
    ELSE LET e == MatchEnd(r, s, i)
         IN IF e > 0
            THEN sub(r, s, e + 1, out \o Replacement(r, s, i, e))
            ELSE sub(r, s, i + 1, Append(out, s[i]))

\* clean_text(text): the five substitutions in their order
clean_text(text) ==
    LET t1 == sub(1, text, 1, << >>)
        t2 == sub(2, t1, 1, << >>)
        t3 == sub(3, t2, 1, << >>)
        t4 == sub(4, t3, 1, << >>)
    IN sub(5, t4, 1, << >>)

\* One raw text on its way through clean_text, and the cleaned text on its
\* way through clean_text again.
CleanCall(raw) == [raw |-> raw, pc |-> "raw", once |-> << >>, twice |-> << >>]

\* "text = clean_text(initial_text)"
CleanOnce ==
    /\ Len(opens) = 1
    /\ opens[1].pc = "raw"
    /\ opens' = [opens EXCEPT ![1].pc = "once", ![1].once = clean_text(opens[1].raw)]
    /\ UNCHANGED <<fs, fs_changes, cache, processing_queue, book_path, pages, chapters,
                   current_page, fg, bm_cache, bm_file, saves>>

\* clean_text applied to its own result
CleanTwice ==
    /\ Len(opens) = 1
    /\ opens[1].pc = "once"
    /\ opens' = [opens EXCEPT ![1].pc = "twice", ![1].twice = clean_text(opens[1].once)]
    /\ UNCHANGED <<fs, fs_changes, cache, processing_queue, book_path, pages, chapters,
                   current_page, fg, bm_cache, bm_file, saves>>

\* every raw text, before clean_text
CleanInit ==
    /\ fs = [p \in Paths |-> [st_mtime |-> 1, st_size |-> MaxDocPages, valid |-> TRUE]]
    /\ fs_changes = 0
    /\ cache = << >>
    /\ processing_queue = << >>
    /\ book_path = ""
    /\ pages = << >>
    /\ chapters = << >>
    /\ current_page = 0
    /\ fg = [t \in Threads |-> [pc |-> IF t = "main" THEN "init" ELSE "idle", id |-> 0,
                                 result |-> NoResult]]
    /\ \E raw \in Strings : opens = <<CleanCall(raw)>>
    /\ bm_cache = << >>
    /\ bm_file = [p \in Paths |-> NoBookmark]
    /\ saves = << >>

CleanNext ==
    \/ CleanOnce
    \/ CleanTwice

CleanSpec == CleanInit /\ [][CleanNext]_vars

(* ----------------------- chapter titles in detail ---------------------- *)
(* extract_chapters_from_epub on a table of contents and on headings.  (The *)
(* pipeline above uses it with one title per document version.)  A title   *)
(* is the list of its characters; " " stands for white space.              *)

\* entries of the longest table of contents
MaxToc == 2
\* content items of the largest document
MaxItems == 3
\* stands for the 5 titles below which the headings are scanned too
TocEnough == 2
\* stands for the 100 characters a heading must stay below
HeadingLimit == 2
\* stands for the 20 of "cleaned_chapters[:20]"
ChapterCap == 2

\* titles as they stand in a document: blank ones, padded ones, short and
\* long ones
Titles ==
    {<< >>, <<" ">>, <<"x">>, <<" ", "x">>, <<"x", " ">>, <<"y">>, <<"x", "y">>,
     <<"y", "x">>, <<"x", "y", "x">>}

\* an entry of book.toc: a Link or Section with a title, or a tuple without
\* the attribute
TocItems == {[has_title |-> TRUE, title |-> t] : t \in Titles}
                \cup {[has_title |-> FALSE, title |-> << >>]}

\* a document item: the text of its one heading, no heading, or HTML that
\* raises in the parser
ContentItems == {[parsed |-> TRUE, headings |-> <<t>>] : t \in Titles}
                    \cup {[parsed |-> TRUE, headings |-> << >>],
                          [parsed |-> FALSE, headings |-> << >>]}

\* the EPUB files: those that epub.read_epub reads, and one that makes it raise
Documents ==
    {[readable |-> TRUE, toc |-> toc, items |-> items] :
        toc \in UNION {[1..n -> TocItems] : n \in 0..MaxToc},
        items \in UNION {[1..n -> ContentItems] : n \in 0..MaxItems}}
    \cup {[readable |-> FALSE, toc |-> << >>, items |-> << >>]}

RECURSIVE lstrip(_)
lstrip(title) ==
    IF title # << >> /\ Head(title) = " " THEN lstrip(Tail(title)) ELSE title

RECURSIVE rstrip(_)
rstrip(title) ==
    IF title # << >> /\ title[Len(title)] = " "
    THEN rstrip(SubSeq(title, 1, Len(title) - 1))
    ELSE title

\* str.strip()
strip(title) == rstrip(lstrip(title))

RECURSIVE TocTitles(_)
\* "# Method 1": the stripped titles of the entries that have a non-blank one
TocTitles(toc) ==
    IF toc = << >> THEN << >>
    ELSE LET item == Head(toc)
         IN IF item.has_title /\ item.title # << >> /\ strip(item.title) # << >>
            THEN <<strip(item.title)>> \o TocTitles(Tail(toc))
            ELSE TocTitles(Tail(toc))

RECURSIVE HeadingTitles(_)
\* the loop over soup.find_all(['h1', 'h2', 'h3']) of one item
HeadingTitles(headings) ==
    IF headings = << >> THEN << >>
    ELSE LET heading_text == strip(Head(headings))
         IN IF heading_text # << >> /\ Len(heading_text) < HeadingLimit
            THEN <<heading_text>> \o HeadingTitles(Tail(headings))
            ELSE HeadingTitles(Tail(headings))

RECURSIVE ScanHeadings(_)
\* the loop over book.get_items(): an item that raises is passed over
ScanHeadings(items) ==
    IF items = << >> THEN << >>
    ELSE (IF Head(items).parsed THEN HeadingTitles(Head(items).headings) ELSE << >>)
             \o ScanHeadings(Tail(items))

\* the list chapters before "# Clean up and deduplicate": the titles of the
\* table of contents, and behind them the headings when these are too few
Candidates(doc) ==
    LET found == TocTitles(doc.toc)
    IN IF found = << >> \/ Len(found) < TocEnough
       THEN found \o ScanHeadings(doc.items)
       ELSE found

\* a test that takes a title whether seen or not
IsNewChapter_SeenOrNot(clean_chapter, seen) == clean_chapter # << >>

\* "if clean_chapter and clean_chapter not in seen"
IsNewChapter(clean_chapter, seen) == clean_chapter # << >> /\ clean_chapter \notin seen

RECURSIVE Deduplicate(_, _, _)
\* the loop of "# Clean up and deduplicate"
Deduplicate(found, seen, cleaned_chapters) ==
    IF found = << >> THEN cleaned_chapters
    ELSE LET clean_chapter == strip(Head(found))
         IN IF IsNewChapter(clean_chapter, seen)
            THEN Deduplicate(Tail(found), seen \cup {clean_chapter},
                             Append(cleaned_chapters, clean_chapter))
            ELSE Deduplicate(Tail(found), seen, cleaned_chapters)

\* extract_chapters_from_epub(book_path), for the document at that path
ExtractChapters(doc) ==
    IF ~doc.readable THEN << >>
    ELSE LET cleaned_chapters == Deduplicate(Candidates(doc), {}, << >>)
         IN SubSeq(cleaned_chapters, 1, Min(Len(cleaned_chapters), ChapterCap))

\* one document on its way through extract_chapters_from_epub
ChapterCall(doc) == [doc |-> doc, pc |-> "start", chapters |-> << >>]

\* "chapters = extract_chapters_from_epub(path)"
DetectChapters ==
    /\ Len(opens) = 1
    /\ opens[1].pc = "start"
    /\ opens' = [opens EXCEPT ![1].pc = "detected",
                              ![1].chapters = ExtractChapters(opens[1].doc)]
    /\ UNCHANGED <<fs, fs_changes, cache, processing_queue, book_path, pages, chapters,
                   current_page, fg, bm_cache, bm_file, saves>>

\* every document, before the call
ChapterInit ==
    /\ fs = [p \in Paths |-> [st_mtime |-> 1, st_size |-> MaxDocPages, valid |-> TRUE]]
    /\ fs_changes = 0
    /\ cache = << >>
    /\ processing_queue = << >>
    /\ book_path = ""
    /\ pages = << >>
    /\ chapters = << >>
    /\ current_page = 0
    /\ fg = [t \in Threads |-> [pc |-> IF t = "main" THEN "init" ELSE "idle", id |-> 0,
                                 result |-> NoResult]]
    /\ \E doc \in Documents : opens = <<ChapterCall(doc)>>
    /\ bm_cache = << >>
    /\ bm_file = [p \in Paths |-> NoBookmark]
    /\ saves = << >>

ChapterNext == DetectChapters

ChapterSpec == ChapterInit /\ [][ChapterNext]_vars

(* ------------------- the two extraction passes in detail --------------- *)
(* The loops of extract_text_fast and process_full over the content items  *)
(* of one document, item by item.  An item is the number of words of its   *)
(* text, or HTML that raises in the parser; word k of item i is <<i, k>>.  *)

\* content items of the largest document of the passes
MaxPassItems == 4
\* words of the longest item
MaxItemWords == 3
\* stands for target_words = 10000
TargetWords == 2

\* the documents: lists of items that parse, with their words, or raise
PassDocuments ==
    LET PassItems == {[parsed |-> TRUE, words |-> n] : n \in 0..MaxItemWords}
                        \cup {[parsed |-> FALSE, words |-> 0]}
    IN UNION {[1..n -> PassItems] : n \in 0..MaxPassItems}

\* BeautifulSoup(html, "html.parser").get_text(separator="\n").strip() of item i
ItemText(doc, i) == [k \in 1..doc[i].words |-> <<i, k>>]

RECURSIVE JoinParts(_)
\* "\n".join(parts), as the list of its words
JoinParts(parts) ==
    IF parts = << >> THEN << >> ELSE Head(parts) \o JoinParts(Tail(parts))

\* a quick pass that never has enough
QuickEnough_Never(current_words, items_processed) == FALSE

\* "if current_words >= target_words or items_processed >= 30: break"
QuickEnough(current_words, items_processed) ==
    current_words >= TargetWords \/ items_processed >= QuickItems

\* an item loop without its try: the exception leaves the loop
OnItemError_Propagates(pc) == "raised"

\* "except Exception as e: print(...); continue": the loop goes on
OnItemError(pc) == pc

\* one document on its way through the quick pass and the full pass
PassCall(doc) ==
    [doc |-> doc, pc |-> "quick", next |-> 1, parts |-> << >>, items_processed |-> 0,
     text |-> << >>, stored_partial |-> FALSE,
     full_parts |-> << >>, processed_count |-> 0, full_text |-> << >>,
     stored_full |-> FALSE]

\* one turn of the loop of lines 129-143 on the next item
QuickItem ==
    /\ Len(opens) = 1
    /\ opens[1].pc = "quick"
    /\ opens[1].next <= Len(opens[1].doc)
    /\ LET o == opens[1]
           i == o.next
           parts == Append(o.parts, ItemText(o.doc, i))
       IN opens' =
            IF o.doc[i].parsed
            THEN [opens EXCEPT ![1].parts = parts,
                               ![1].items_processed = o.items_processed + 1,
                               ![1].next = i + 1,
                               ![1].pc = IF QuickEnough(Len(JoinParts(parts)),
                                                        o.items_processed + 1)
                                         THEN "quick_break" ELSE "quick"]
            ELSE [opens EXCEPT ![1].next = i + 1, ![1].pc = OnItemError("quick")]
    /\ UNCHANGED <<fs, fs_changes, cache, processing_queue, book_path, pages, chapters,
                   current_page, fg, bm_cache, bm_file, saves>>

\* lines 145-164 after the loop has ended or was left: the Partial artifact
QuickStore ==
    /\ Len(opens) = 1
    /\ \/ opens[1].pc = "quick_break"
       \/ opens[1].pc = "quick" /\ opens[1].next > Len(opens[1].doc)
    /\ opens' = [opens EXCEPT ![1].text = JoinParts(opens[1].parts),
                              ![1].stored_partial = TRUE,
                              ![1].next = 1,
                              ![1].pc = "full"]
    /\ UNCHANGED <<fs, fs_changes, cache, processing_queue, book_path, pages, chapters,
                   current_page, fg, bm_cache, bm_file, saves>>

\* one turn of the loop of lines 175-188 on the next item
FullItem ==
    /\ Len(opens) = 1
    /\ opens[1].pc = "full"
    /\ opens[1].next <= Len(opens[1].doc)
    /\ LET o == opens[1]
           i == o.next
       IN opens' =
            IF o.doc[i].parsed
            THEN [opens EXCEPT ![1].full_parts = Append(o.full_parts, ItemText(o.doc, i)),
                               ![1].processed_count = o.processed_count + 1,
                               ![1].next = i + 1]
            ELSE [opens EXCEPT ![1].next = i + 1, ![1].pc = OnItemError("full")]
    /\ UNCHANGED <<fs, fs_changes, cache, processing_queue, book_path, pages, chapters,
                   current_page, fg, bm_cache, bm_file, saves>>

\* lines 190-201 after the loop: the Full artifact
FullStore ==
    /\ Len(opens) = 1
    /\ opens[1].pc = "full"
    /\ opens[1].next > Len(opens[1].doc)
    /\ opens' = [opens EXCEPT ![1].full_text = JoinParts(opens[1].full_parts),
                              ![1].stored_full = TRUE,
                              ![1].pc = "done"]
    /\ UNCHANGED <<fs, fs_changes, cache, processing_queue, book_path, pages, chapters,
                   current_page, fg, bm_cache, bm_file, saves>>

\* every document, at the start of the quick pass's loop
PassInit ==
    /\ fs = [p \in Paths |-> [st_mtime |-> 1, st_size |-> MaxDocPages, valid |-> TRUE]]
    /\ fs_changes = 0
    /\ cache = << >>
    /\ processing_queue = << >>
    /\ book_path = ""
    /\ pages = << >>
    /\ chapters = << >>
    /\ current_page = 0
    /\ fg = [t \in Threads |-> [pc |-> IF t = "main" THEN "init" ELSE "idle", id |-> 0,
                                 result |-> NoResult]]
    /\ \E doc \in PassDocuments : opens = <<PassCall(doc)>>
    /\ bm_cache = << >>
    /\ bm_file = [p \in Paths |-> NoBookmark]
    /\ saves = << >>

PassNext ==
    \/ QuickItem
    \/ QuickStore
    \/ FullItem
    \/ FullStore

PassSpec == PassInit /\ [][PassNext]_vars

(* ----------------------- the button state machine ---------------------- *)
(* FourButtonControls of controls.py with the callbacks of main.py that    *)
(* write its fields.  The record of opens[1] holds the fields of the       *)
(* controls object, the position of the main thread and whether a book is  *)
(* loaded.  A book title is its number in the list, a chapter title too.   *)

\* books in the largest books directory
MaxBooks == 6
\* chapters of the longest chapter list
MaxChapterMenu == 2

MAIN_MENU ==
    <<"Resume", "Jump Pages", "Skip to Chapter", "Refresh Book", "Select Book", "Sleep",
      "Shutdown">>

JUMP_MENU ==
    <<"+5 pages", "+10 pages", "+50 pages", "+100 pages",
      "-5 pages", "-10 pages", "-50 pages", "-100 pages", "Back">>

SLEEP_MENU == <<"Sleep Now", "Cancel">>

SHUTDOWN_MENU == <<"Shutdown Now", "Cancel">>

\* entries of one page of the book browser
items_per_page == 6

\* the lists extract_text_fast can return as chapters
ChapterLists == {[i \in 1..n |-> i] : n \in 0..MaxChapterMenu}

\* the controls object, one field after the other
ctl == opens[1]

\* self.chapter_menu = chapters; no index and no state is touched
set_chapters(c, chs) == [c EXCEPT !.chapter_menu = chs]

\* self.browser_menu = ["Back to Reading"] + books, index and page to 0
set_books(c, books) ==
    [c EXCEPT !.browser_menu = <<"Back to Reading">> \o books,
              !.browser_index = 0,
              !.browser_page = 0]

\* a submenu left for the main menu, with the position its handler sets
back_to_main(c) ==
    LET index == CASE c.current_state = "JUMP_MENU" -> 1
                   [] c.current_state = "CHAPTER_MENU" -> 2
                   [] c.current_state = "BROWSER_MENU" -> 3
                   [] c.current_state = "SLEEP_MENU" -> 4
                   [] c.current_state = "SHUTDOWN_CONFIRM" -> 5
    IN [c EXCEPT !.current_state = "MAIN_MENU", !.menu_index = index]

\* the callback on_book_select: load_book of the chosen book, which sets
\* its chapters, then READING; or load_book fails and the browser is shown
\* again
book_select(c, ok, chs) ==
    IF ok
    THEN [set_chapters(c, chs) EXCEPT !.current_state = "READING", !.loaded = TRUE]
    ELSE [c EXCEPT !.current_state = "BROWSER_MENU"]

\* the callback page_change leaves the controls alone
_handle_reading_mode(c, button) ==
    IF button = "menu"
    THEN [c EXCEPT !.current_state = "MAIN_MENU", !.menu_index = 0]
    ELSE c

\* "Refresh Book" runs refresh_current_book, which sets the chapters of the
\* open book again
_handle_main_menu(c, button, chs) ==
    LET selected == MAIN_MENU[c.menu_index + 1]
    IN CASE button = "prev" ->
              [c EXCEPT !.menu_index = (c.menu_index - 1) % Len(MAIN_MENU)]
         [] button = "next" ->
              [c EXCEPT !.menu_index = (c.menu_index + 1) % Len(MAIN_MENU)]
         [] button = "back" -> [c EXCEPT !.current_state = "READING"]
         [] button = "menu" ->
              CASE selected = "Resume" -> [c EXCEPT !.current_state = "READING"]
                [] selected = "Jump Pages" ->
                     [c EXCEPT !.current_state = "JUMP_MENU", !.submenu_index = 0]
                [] selected = "Skip to Chapter" ->
                     IF c.chapter_menu # << >>
                     THEN [c EXCEPT !.current_state = "CHAPTER_MENU",
                                    !.chapter_menu_index = 0]
                     ELSE c
                [] selected = "Refresh Book" ->
                     IF c.loaded THEN set_chapters(c, chs) ELSE c
                [] selected = "Select Book" ->
                     [c EXCEPT !.current_state = "BROWSER_MENU", !.browser_index = 0]
                [] selected = "Sleep" ->
                     [c EXCEPT !.current_state = "SLEEP_MENU", !.submenu_index = 0]
                [] selected = "Shutdown" ->
                     [c EXCEPT !.current_state = "SHUTDOWN_CONFIRM", !.submenu_index = 0]

_handle_jump_menu(c, button) ==
    CASE button = "prev" ->
           [c EXCEPT !.submenu_index = (c.submenu_index - 1) % Len(JUMP_MENU)]
      [] button = "next" ->
           [c EXCEPT !.submenu_index = (c.submenu_index + 1) % Len(JUMP_MENU)]
      [] button = "menu" ->
           IF JUMP_MENU[c.submenu_index + 1] = "Back"
           THEN back_to_main(c)
           ELSE [c EXCEPT !.current_state = "READING"]
      [] button = "back" -> back_to_main(c)

_handle_chapter_menu(c, button) ==
    IF c.chapter_menu = << >>
    THEN [c EXCEPT !.current_state = "MAIN_MENU"]
    ELSE CASE button = "prev" ->
                [c EXCEPT !.chapter_menu_index =
                              (c.chapter_menu_index - 1) % Len(c.chapter_menu)]
           [] button = "next" ->
                [c EXCEPT !.chapter_menu_index =
                              (c.chapter_menu_index + 1) % Len(c.chapter_menu)]
           [] button = "menu" -> [c EXCEPT !.current_state = "READING"]
           [] button = "back" -> back_to_main(c)

_handle_browser_menu(c, button, ok, chs) ==
    LET total_items == Len(c.browser_menu)
        \* browser_index after prev / next, with the page that shows it
        moved(index) ==
            [c EXCEPT !.browser_index = index,
                      !.browser_page = index \div items_per_page]
    IN IF c.browser_menu = << >>
       THEN [c EXCEPT !.current_state = "MAIN_MENU"]
       ELSE CASE button = "prev" -> moved((c.browser_index - 1) % total_items)
              [] button = "next" -> moved((c.browser_index + 1) % total_items)
              [] button = "menu" ->
                   IF c.browser_index = 0
                   THEN [c EXCEPT !.current_state = "READING"]
                   ELSE IF c.browser_index - 1 < Len(c.browser_menu) - 1
                        THEN book_select(c, ok, chs)
                        ELSE c
              [] button = "back" -> back_to_main(c)

\* "Sleep Now" runs on_menu_action('sleep'), which ends in READING
_handle_sleep_menu(c, button) ==
    CASE button = "prev" ->
           [c EXCEPT !.submenu_index = (c.submenu_index - 1) % Len(SLEEP_MENU)]
      [] button = "next" ->
           [c EXCEPT !.submenu_index = (c.submenu_index + 1) % Len(SLEEP_MENU)]
      [] button = "menu" ->
           IF SLEEP_MENU[c.submenu_index + 1] = "Sleep Now"
           THEN [c EXCEPT !.current_state = "READING"]
           ELSE back_to_main(c)
      [] button = "back" -> back_to_main(c)

\* "Shutdown Now" runs on_menu_action('shutdown'): cleanup() stops the
\* button thread
_handle_shutdown_menu(c, button) ==
    CASE button = "prev" ->
           [c EXCEPT !.submenu_index = (c.submenu_index - 1) % Len(SHUTDOWN_MENU)]
      [] button = "next" ->
           [c EXCEPT !.submenu_index = (c.submenu_index + 1) % Len(SHUTDOWN_MENU)]
      [] button = "menu" ->
           IF SHUTDOWN_MENU[c.submenu_index + 1] = "Shutdown Now"
           THEN [c EXCEPT !.running = FALSE]
           ELSE back_to_main(c)
      [] button = "back" -> back_to_main(c)

\* one button released: the handler of the current state runs, with what
\* its callbacks find (whether load_book succeeds, the chapters it returns)
_handle_button ==
    /\ Len(opens) = 1
    /\ ctl.running
    /\ ctl.main # "ended"
    /\ \E button \in {"prev", "next", "menu", "back"}, ok \in BOOLEAN, chs \in ChapterLists :
          opens' =
            CASE ctl.current_state = "READING" -> <<_handle_reading_mode(ctl, button)>>
              [] ctl.current_state = "MAIN_MENU" -> <<_handle_main_menu(ctl, button, chs)>>
              [] ctl.current_state = "JUMP_MENU" -> <<_handle_jump_menu(ctl, button)>>
              [] ctl.current_state = "CHAPTER_MENU" -> <<_handle_chapter_menu(ctl, button)>>
              [] ctl.current_state = "BROWSER_MENU" ->
                   <<_handle_browser_menu(ctl, button, ok, chs)>>
              [] ctl.current_state = "SLEEP_MENU" -> <<_handle_sleep_menu(ctl, button)>>
              [] ctl.current_state = "SHUTDOWN_CONFIRM" ->
                   <<_handle_shutdown_menu(ctl, button)>>
    /\ UNCHANGED <<fs, fs_changes, cache, processing_queue, book_path, pages, chapters,
                   current_page, fg, bm_cache, bm_file, saves>>

\* main(): the first load_book sets the chapters of the last book; when it
\* fails the books are listed again
FirstLoadBook ==
    /\ Len(opens) = 1
    /\ ctl.running
    /\ ctl.main = "load_book"
    /\ \/ \E chs \in ChapterLists :
             opens' = <<[set_chapters(ctl, chs) EXCEPT !.main = "run", !.loaded = TRUE]>>
       \/ \E n \in 0..MaxBooks :
             opens' = <<[set_books(ctl, [i \in 1..n |-> i]) EXCEPT !.main = "list"]>>
    /\ UNCHANGED <<fs, fs_changes, cache, processing_queue, book_path, pages, chapters,
                   current_page, fg, bm_cache, bm_file, saves>>

\* main(): no last book, so the browser is shown, or the program ends
\* when there is no book at all
ShowBrowser ==
    /\ Len(opens) = 1
    /\ ctl.running
    /\ ctl.main = "list"
    /\ opens' = IF Len(ctl.browser_menu) > 1
                THEN <<[ctl EXCEPT !.current_state = "BROWSER_MENU", !.main = "run"]>>
                ELSE <<[ctl EXCEPT !.main = "ended"]>>
    /\ UNCHANGED <<fs, fs_changes, cache, processing_queue, book_path, pages, chapters,
                   current_page, fg, bm_cache, bm_file, saves>>

\* check_background_processing on the main thread: the chapters of a
\* finished full pass
SwapChapters ==
    /\ Len(opens) = 1
    /\ ctl.running
    /\ ctl.main = "run"
    /\ ctl.loaded
    /\ \E chs \in ChapterLists : opens' = <<set_chapters(ctl, chs)>>
    /\ UNCHANGED <<fs, fs_changes, cache, processing_queue, book_path, pages, chapters,
                   current_page, fg, bm_cache, bm_file, saves>>

\* after CompleteEReader.__init__, for every content of the books
\* directory: the fields of FourButtonControls.__init__, then
\* load_books_list
ControlsInit ==
    /\ fs = [p \in Paths |-> [st_mtime |-> 1, st_size |-> MaxDocPages, valid |-> TRUE]]
    /\ fs_changes = 0
    /\ cache = << >>
    /\ processing_queue = << >>
    /\ book_path = ""
    /\ pages = << >>
    /\ chapters = << >>
    /\ current_page = 0
    /\ fg = [t \in Threads |-> [pc |-> IF t = "main" THEN "init" ELSE "idle", id |-> 0,
                                 result |-> NoResult]]
    /\ \E n \in 0..MaxBooks :
          opens = <<set_books([current_state |-> "READING", menu_index |-> 0,
                               submenu_index |-> 0, chapter_menu_index |-> 0,
                               browser_index |-> 0, browser_page |-> 0,
                               browser_menu |-> << >>, chapter_menu |-> << >>,
                               running |-> TRUE, main |-> "load_book", loaded |-> FALSE],
                              [i \in 1..n |-> i])>>
    /\ bm_cache = << >>
    /\ bm_file = [p \in Paths |-> NoBookmark]
    /\ saves = << >>

ControlsNext ==
    \/ _handle_button
    \/ FirstLoadBook
    \/ ShowBrowser
    \/ SwapChapters

ControlsSpec == ControlsInit /\ [][ControlsNext]_vars

(* ------------------------------ claims --------------------------------- *)
\* the opens that have come to an end without an exception
Returned(i) == opens[i].outcome \in {"cached", "partial", "error"}

\* thread t takes a step of its call while it stands at pc (the end of the
\* process is no step of the call)
Steps(t, pc) == fg[t].pc = pc /\ fg'[t] # fg[t] /\ fg'[t].pc # "halted"

\* C1: a refresh of a document whose Full artifact was cached when the
\* refresh began reopens it without a cache hit: the reopen returns a
\* Partial result of a new quick pass, never the cached Full artifact.
C1_RefreshReopensUncached ==
    \A i \in DOMAIN opens :
        (opens[i].via = "refresh" /\ opens[i].full_before /\ Returned(i)
            /\ opens[i].outcome # "error")
        => (opens[i].outcome = "partial" /\ opens[i].seen = "absent")

\* C2: a call that finds a readable Full artifact under the document's
\* current fingerprint returns that artifact's text, pages and chapters,
\* leaves the cache directory and the queue as they are and starts no
\* thread; no completion is ever published for such a call.
C2_HitReturnsCachedOnly ==
    /\ [][\A t \in Threads :
            LET i == fg[t].id
                path == opens[i].path
                key == cache_file(path, fs[path])
            IN  (Steps(t, "stat") /\ exists(path) /\ Seen(key) = "full")
                => /\ opens'[i].ret = [text |-> cache[key].data.text,
                                       pages |-> cache[key].data.pages,
                                       chapters |-> cache[key].data.chapters]
                   /\ opens'[i].outcome = "cached"
                   /\ fg'[t].pc = "assign"
                   /\ cache' = cache
                   /\ processing_queue' = processing_queue
                   /\ opens'[i].bg = "none"]_vars
    /\ [](\A i \in DOMAIN opens :
            opens[i].outcome = "cached"
            => (opens[i].bg = "none" /\ opens[i].published = 0
                /\ ~opens[i].stored_partial /\ ~opens[i].stored_full))

\* C2 witness: a call has returned a cached Full artifact
C2_Witness ==
    \E i \in DOMAIN opens :
        opens[i].outcome = "cached" /\ opens[i].seen = "full" /\ Len(opens[i].ret.pages) > 0

\* C3: a call that finds only a Partial artifact under the fingerprint
\* returns the pages and chapters of that cached artifact and starts a full
\* pass.
C3_PartialHitReturnsCached ==
    \A i \in DOMAIN opens :
        (opens[i].seen = "partial" /\ opens[i].outcome # "running")
        => /\ opens[i].ret.pages = opens[i].seen_data.pages
           /\ opens[i].ret.chapters = opens[i].seen_data.chapters
           /\ opens[i].bg # "none"

\* C4: in a call that found nothing cached, the Partial artifact is stored
\* before the thread is started and before the call returns, and until
\* then no Full artifact lies under that fingerprint.
C4_PartialBeforeFull ==
    \A i \in DOMAIN opens :
        opens[i].seen = "absent"
        => /\ (opens[i].bg # "none" => opens[i].stored_partial)
           /\ (opens[i].outcome = "partial" => opens[i].stored_partial)
           /\ (~opens[i].stored_partial => Seen(opens[i].cache_file) # "full")

\* C5: a completion is put on the queue only by a thread of process_full
\* whose write of the Full artifact has returned, a thread whose write
\* failed publishes nothing, and no thread publishes twice.
C5_PublishAfterStore ==
    /\ [][Len(processing_queue') > Len(processing_queue)
          => \E i \in DOMAIN opens :
                /\ opens[i].stored_full
                /\ opens[i].published = 0
                /\ opens'[i].published = 1
                /\ processing_queue' = Append(processing_queue, Completion(i))]_vars
    /\ [](\A i \in DOMAIN opens :
            /\ opens[i].published <= 1
            /\ (opens[i].published = 1 => opens[i].stored_full)
            /\ (opens[i].bg = "failed" => opens[i].published = 0))

\* C5 witness: a thread has stored the Full artifact and published
C5_Witness ==
    \E i \in DOMAIN opens :
        /\ opens[i].published = 1 /\ opens[i].stored_full
        /\ Seen(opens[i].cache_file) = "full"

\* a step of check_background_processing that took a message
Polled == Len(processing_queue) > 0 /\ processing_queue' = Tail(processing_queue)

\* the step of check_background_processing that replaces the page set
Swapped == fg["main"].pc = "swap" /\ fg'["main"].pc = "run"

\* C6: check_background_processing replaces the pages and chapters by
\* those of a message only if the message names the open document;
\* a message of another document is dropped and leaves pages, chapters
\* and the current page as they are.
C6_OnlyOpenDocumentSwaps ==
    [][/\ Polled /\ Head(processing_queue).book_path # book_path
          => /\ pages' = pages /\ chapters' = chapters /\ current_page' = current_page
             /\ fg'["main"].pc = "run"
       /\ Swapped
          => /\ fg["main"].result.book_path = book_path
             /\ pages' = fg["main"].result.pages
             /\ chapters' = fg["main"].result.chapters]_vars

\* C7: no call reads a cache file that a store in progress has left
\* half-written.
C7_NoHalfWrittenRead ==
    \A i \in DOMAIN opens : opens[i].seen # "half"

\* C8: a step in which a thread of process_full fails leaves the readable
\* Partial artifact of the quick pass under the fingerprint, publishes
\* nothing and leaves the foreground pages and current page unchanged.
C8_FailedFullPassKeepsPartial ==
    [][\A i \in DOMAIN opens :
        (opens[i].bg # "failed" /\ opens'[i].bg = "failed")
        => /\ Seen(opens[i].cache_file)' = "partial"
           /\ cache'[opens[i].cache_file].data.pages = opens[i].ret.pages
           /\ opens'[i].published = 0
           /\ processing_queue' = processing_queue
           /\ pages' = pages /\ current_page' = current_page]_vars

\* C9: a call that finds an unreadable cache file goes on as for a miss:
\* it raises nothing and runs the quick pass, and its store, when no other
\* writer has the file open, leaves a Partial artifact of that quick pass.
C9_CorruptCacheIsMiss ==
    /\ [][\A t \in Threads :
            LET i == fg[t].id
                path == opens[i].path
                key == cache_file(path, fs[path])
            IN  /\ (Steps(t, "stat") /\ exists(path) /\ Seen(key) \in {"corrupt", "half"})
                   => (fg'[t].pc = "quick" /\ opens'[i].outcome = "running")
                /\ (Steps(t, "quick") /\ opens[i].seen \in {"corrupt", "half"}
                       /\ readable(path))
                   => cache'[opens[i].cache_file] \in
                         {WritingFile(FgWriter(i), FALSE), WritingFile(FgWriter(i), TRUE)}
                /\ (Steps(t, "dump") /\ opens[i].seen \in {"corrupt", "half"}
                       /\ opens'[i].outcome = "partial"
                       /\ cache[opens[i].cache_file] = WritingFile(FgWriter(i), FALSE))
                   => /\ Seen(opens[i].cache_file)' = "partial"
                      /\ cache'[opens[i].cache_file].data.pages = opens'[i].ret.pages]_vars
    /\ [](\A i \in DOMAIN opens :
            opens[i].seen \in {"corrupt", "half"} => opens[i].outcome # "raised")

\* C9 witness: a call found a corrupt file and returned a Partial result
C9_Witness ==
    \E i \in DOMAIN opens :
        /\ opens[i].seen = "corrupt" /\ opens[i].outcome = "partial"
        /\ Seen(opens[i].cache_file) = "partial"

\* C10: a call on a document that cannot be read raises nothing and
\* returns one page with an error message and no chapters, stores nothing
\* and starts no thread.
C10_UnreadableGivesErrorPage ==
    \A i \in DOMAIN opens :
        opens[i].doc_failed
        => /\ opens[i].outcome = "error"
           /\ Len(opens[i].ret.pages) = 1
           /\ opens[i].ret.chapters = << >>
           /\ ~opens[i].stored_partial
           /\ opens[i].bg = "none"

\* C11: the step of check_background_processing that replaces the page set
\* keeps the current page index if it is smaller than the new page count
\* and otherwise sets it to the index of the last new page; an index that
\* is not the first page never becomes the first page unless the new page
\* set has a single page.
C11_SwapKeepsPosition ==
    [][Swapped
       => LET n == Len(fg["main"].result.pages)
          IN  /\ current_page < n => current_page' = current_page
              /\ current_page >= n => current_page' = n - 1
              /\ (current_page > 0 /\ n > 1) => current_page' > 0]_vars

\* C11 witness: the session resumed on the second page of a two-page
\* Partial result, no page was turned, and the three Full pages have been
\* swapped in with the index still on the second page
C11_Witness ==
    /\ Len(opens) = 1 /\ opens[1].outcome = "partial" /\ Len(opens[1].ret.pages) = 2
    /\ opens[1].published = 1 /\ processing_queue = << >> /\ fg["main"].pc = "run"
    /\ saves = << >>
    /\ pages = opens[1].cache_data.pages /\ Len(pages) = 3
    /\ current_page = 1

\* C12: when load_book takes a result of n >= 1 pages, the current page
\* index becomes the saved page number p less one, raised to 0 if it is
\* negative and lowered to n - 1 if it is larger, for every p that
\* load_bookmark returns (p <= 0 and p > n included).
C12_ResumeIsClamp ==
    [][\A t \in Threads :
        LET i == fg[t].id
            p == load_bookmark(opens[i].path)
            n == Len(opens[i].ret.pages)
        IN  (Steps(t, "assign") /\ opens[i].via = "load" /\ n >= 1)
            => current_page' = (IF p - 1 > n - 1 THEN n - 1
                                ELSE IF p - 1 < 0 THEN 0 ELSE p - 1)]_vars

\* C12 witness: a record with a page number beyond the two pages of the
\* Partial result was loaded, and the session stands on the last page
C12_Witness ==
    /\ Len(opens) = 1 /\ opens[1].outcome = "partial" /\ fg["main"].pc = "run"
    /\ bm_file[LastBook] = BookmarkRecord(LastBook, MaxDocPages + 1)
    /\ LastBook \in DOMAIN bm_cache /\ bm_cache[LastBook] = MaxDocPages + 1
    /\ saves = << >> /\ opens[1].published = 0
    /\ pages = opens[1].ret.pages /\ Len(pages) = 2
    /\ current_page = 1

\* save thread k belongs to the most recent save_bookmark_async call for its
\* document
LatestSave(k) ==
    \A j \in DOMAIN saves : j > k => saves[j].book_path # saves[k].book_path

\* C13: from the return of save_bookmark_async(book, p) until its save
\* thread has finished, and as long as no later save was issued for the
\* book, a load_bookmark(book) returns p.
C13_LoadAfterSaveReturnsSaved ==
    \A k \in DOMAIN saves :
        (LatestSave(k) /\ saves[k].pc # "done")
        => load_bookmark(saves[k].book_path) = saves[k].page_num

\* C14: once every save thread has finished, the bookmark file and the
\* _cache entry of each document hold the page number of the most recent
\* save_bookmark_async call for that document.
C14_LastWriteWins ==
    (\A k \in DOMAIN saves : saves[k].pc = "done")
    => \A k \in DOMAIN saves :
          LatestSave(k)
          => /\ bm_file[saves[k].book_path]
                    = BookmarkRecord(saves[k].book_path, saves[k].page_num)
             /\ saves[k].book_path \in DOMAIN bm_cache
             /\ bm_cache[saves[k].book_path] = saves[k].page_num

\* C15: the cache file of an open that started a full pass, once it holds
\* the Full artifact, holds a Full artifact in every later state in which
\* the file exists (only an invalidation, which removes the file, ends
\* that), and the thread of the open stores the Full artifact once.
C15_FullOnceThenStays ==
    /\ [][\A i \in DOMAIN opens :
            (opens[i].bg # "none" /\ Seen(opens[i].cache_file) = "full")
            => \/ opens[i].cache_file \notin DOMAIN cache'
               \/ Seen(opens[i].cache_file)' = "full"]_vars
    /\ [][\A i \in DOMAIN opens :
            opens[i].stored_full => (opens'[i].stored_full /\ opens'[i].bg # "dump")]_vars

\* the main thread has come to the polling loop of run()
MainPolls == fg["main"].pc \in {"run", "swap"}

\* the caller of open i has taken its result (load_book line 80, refresh
\* line 156) and no later open was made
Taken(i) ==
    /\ i = Len(opens)
    /\ fg[opens[i].thread].id = i
    /\ fg[opens[i].thread].pc \in {"idle", "run", "swap"}

\* the Full artifact of open i is stored, its completion is published and
\* the foreground pages are its Full pages
FullSwappedIn(i) ==
    /\ opens[i].stored_full /\ opens[i].published = 1
    /\ ~opens[i].cache_data.partial
    /\ pages = opens[i].cache_data.pages

InFlight == Len(processing_queue) + (IF fg["main"].result = NoResult THEN 0 ELSE 1)

\* C17: a message that check_processing_complete returns is taken off the
\* queue in that step, the queue changes only by that or by one publish,
\* so that no message is on the queue or in a call more often than it
\* was published; and the page set is replaced by a message only in the
\* step that gives the message up.
C17_ConsumedAtMostOnce ==
    /\ [][(fg'["main"].result # fg["main"].result /\ fg'["main"].result # NoResult)
          => /\ Len(processing_queue) > 0
             /\ fg'["main"].result = Head(processing_queue)
             /\ processing_queue' = Tail(processing_queue)]_vars
    /\ [][processing_queue' # processing_queue
          => \/ /\ Len(processing_queue) > 0
                /\ processing_queue' = Tail(processing_queue)
             \/ \E i \in DOMAIN opens :
                   /\ processing_queue' = Append(processing_queue, Completion(i))
                   /\ opens[i].published = 0 /\ opens'[i].published = 1]_vars
    /\ [][Swapped => (fg'["main"].result = NoResult /\ processing_queue' = processing_queue)]_vars
    /\ [](InFlight <= Cardinality({i \in DOMAIN opens : opens[i].published > 0}))
    /\ [](fg["main"].result # NoResult <=> fg["main"].pc = "swap")

\* C17 witness: two completions were published, both were taken off the
\* queue, and the second one has been applied
C17_Witness ==
    /\ Len(opens) = 2 /\ opens[1].published = 1 /\ opens[2].published = 1
    /\ processing_queue = << >> /\ fg["main"].pc = "run" /\ fg["main"].result = NoResult
    /\ \E i \in DOMAIN opens :
          pages = Completion(i).pages /\ ~opens[i].cache_data.partial

\* C18: when shutdown() has ended the process and the last bookmark save
\* that was issued is the one for the current page of the open document,
\* the bookmark file of the document holds the record of that page.
C18_ShutdownKeepsBookmark ==
    (/\ fg["main"].pc = "halted"
     /\ Len(saves) > 0
     /\ saves[Len(saves)].book_path = book_path
     /\ saves[Len(saves)].page_num = current_page + 1)
    => bm_file[book_path] = BookmarkRecord(book_path, current_page + 1)

\* the bookmark file of path is missing, cannot be parsed, or holds the
\* record of another document
Unusable(path) == bm_file[path].st # "ok" \/ bm_file[path].book_path # path

\* C19 as stated: load_bookmark returns 1 whenever the document has no
\* bookmark record, an unparsable one, or one of another document.
C19_DefaultsToFirstPage ==
    \A path \in Paths : Unusable(path) => load_bookmark(path) = 1

\* C19 amended: a load_bookmark that finds no entry for the document in
\* _cache returns 1 when the document has no bookmark record, an
\* unparsable one, or one of another document, caches nothing and does not
\* raise (load_book goes on to resume at the first page); with an entry
\* in _cache it returns that entry, whatever the file holds.
C19_DefaultsWithoutCacheEntry ==
    /\ [](\A path \in Paths :
            /\ (path \notin DOMAIN bm_cache /\ Unusable(path)) => load_bookmark(path) = 1
            /\ path \in DOMAIN bm_cache => load_bookmark(path) = bm_cache[path])
    /\ [][\A t \in Threads :
            LET i == fg[t].id
                path == opens[i].path
            IN  (Steps(t, "assign") /\ opens[i].via = "load"
                    /\ path \notin DOMAIN bm_cache /\ Unusable(path))
                => /\ current_page' = 0
                   /\ bm_cache' = bm_cache
                   /\ fg'[t].pc \in {"run", "idle"}]_vars

\* C19 witness: load_book found the record of another document in the
\* bookmark file and resumed at the first page of two
C19_Witness ==
    /\ bm_file[LastBook] = BookmarkRecord("b.epub", 2)
    /\ LastBook \notin DOMAIN bm_cache
    /\ Len(opens) = 1 /\ fg["main"].pc = "run" /\ book_path = LastBook
    /\ Len(pages) = 2 /\ current_page = 0 /\ saves = << >>

\* C20: the cache file of a call is named by the path, modification time
\* and size that its os.stat returned, and by nothing else; what a call
\* returns from the cache was stored under that name and is the content
\* of the document version with that modification time and size, never
\* that of an earlier version.
C20_KeyedByTriple ==
    /\ [][\A t \in Threads :
            LET i == fg[t].id
                path == opens[i].path
                key == <<path, <<fs[path].st_mtime, fs[path].st_size>> >>
            IN  (Steps(t, "stat") /\ exists(path))
                => /\ opens'[i].cache_file = key
                   /\ opens'[i].outcome = "cached"
                      => /\ key \in DOMAIN cache
                         /\ opens'[i].ret = CachedReturn(cache[key].data)
                         /\ cache[key].data.book_path = path
                         /\ Len(opens'[i].ret.text) = fs[path].st_size
                         /\ \A j \in DOMAIN opens'[i].ret.text :
                               opens'[i].ret.text[j] = Word(path, fs[path].st_mtime, j)]_vars
    /\ [](\A k \in DOMAIN cache :
            \E i \in DOMAIN opens : opens[i].cache_file = k /\ opens[i].path = k[1])

\* C20 witness: the Full artifact of the earlier version of a document is
\* cached, and a call made after the document changed found nothing
\* under the new name and returned its own quick pass
C20_Witness ==
    \E i, j \in DOMAIN opens :
        /\ i < j /\ opens[i].path = opens[j].path
        /\ opens[i].cache_file # opens[j].cache_file
        /\ Seen(opens[i].cache_file) = "full"
        /\ opens[j].seen = "absent" /\ opens[j].outcome = "partial"

(* ------------------------ claims on the layout ------------------------- *)
\* the text has been laid out by paginate_initial / by both functions
QuickDone == Len(opens) = 1 /\ opens[1].pc \in {"quick", "full"}
FullDone == Len(opens) = 1 /\ opens[1].pc = "full"

RECURSIVE Concat(_)
\* the members of a list of lists, one after the other
Concat(lists) == IF lists = << >> THEN << >> ELSE Head(lists) \o Concat(Tail(lists))

BlankCount(lines) == Cardinality({i \in DOMAIN lines : lines[i] = << >>})

\* the runs of blank paragraphs that stand between two non-blank paragraphs
SeparatorRuns(text) ==
    Cardinality({i \in DOMAIN text :
                    /\ text[i] = << >>
                    /\ i > 1 /\ text[i - 1] # << >>
                    /\ \E j \in DOMAIN text : j > i /\ text[j] # << >>})

NoBlankPair(page) == \A i \in 1..(Len(page) - 1) : ~(page[i] = << >> /\ page[i + 1] = << >>)

\* C21: both layout functions return at least one page for every text; a
\* text without lines gives the placeholder page.
C21_NeverEmpty ==
    /\ QuickDone => opens[1].initial # << >>
    /\ FullDone => opens[1].full # << >>

\* C22: every page of paginate_initial but its last is equal, line for
\* line, to the page of paginate_full at the same index.
C22_QuickAgreesWithFull ==
    FullDone =>
        \A i \in 1..(Len(opens[1].initial) - 1) :
            i <= Len(opens[1].full) /\ opens[1].initial[i] = opens[1].full[i]

\* C23: the words of the lines of the pages of paginate_full, page after
\* page and line after line, are the words of the text in their order: none
\* lost, none twice, none moved.
C23_FullCoversEveryWord ==
    FullDone => Concat(Concat(opens[1].full)) = Concat(opens[1].text)

\* a text of two paragraphs around a blank one whose words wrap and whose
\* lines take more than one page
C23_Witness ==
    /\ FullDone
    /\ Len(opens[1].full) >= 2
    /\ \E i \in DOMAIN opens[1].text : opens[1].text[i] = << >>
    /\ \E i \in DOMAIN opens[1].text :
          Len(opens[1].text[i]) = 2 /\ ~Fits(opens[1].font, opens[1].text[i])
    /\ \E p \in DOMAIN opens[1].full :
          \E l \in DOMAIN opens[1].full[p] : Len(opens[1].full[p][l]) = 2

\* C24: no line of a page measures more than W - 2 * margin.
C24_LinesFit ==
    /\ QuickDone =>
          \A p \in DOMAIN opens[1].initial : \A l \in DOMAIN opens[1].initial[p] :
              LET line == opens[1].initial[p][l]
              IN line \notin {<< >>, LoadingPage[1]} => Fits(opens[1].font, line)
    /\ FullDone =>
          \A p \in DOMAIN opens[1].full : \A l \in DOMAIN opens[1].full[p] :
              LET line == opens[1].full[p][l]
              IN line # << >> => Fits(opens[1].font, line)

\* C25: every page of either function holds at least one line and at most
\* max_lines_per_page lines.
C25_PageSizes ==
    /\ QuickDone =>
          \A p \in DOMAIN opens[1].initial :
              /\ Len(opens[1].initial[p]) >= 1
              /\ Len(opens[1].initial[p]) <= max_lines_per_page(opens[1].font)
    /\ FullDone =>
          \A p \in DOMAIN opens[1].full :
              /\ Len(opens[1].full[p]) >= 1
              /\ Len(opens[1].full[p]) <= max_lines_per_page(opens[1].font)

\* both layouts have filled a page to the last line and gone on to another
C25_Witness ==
    /\ FullDone
    /\ max_lines_per_page(opens[1].font) = 2
    /\ Len(opens[1].full) >= 3
    /\ Len(opens[1].full[1]) = 2
    /\ Len(opens[1].initial) >= 2
    /\ Len(opens[1].initial[1]) = 2

\* C26: no page of either function begins or ends with a blank line.
C26_NoBlankAtPageEdges ==
    /\ QuickDone =>
          \A p \in DOMAIN opens[1].initial :
              LET page == opens[1].initial[p]
              IN page # << >> => page[1] # << >> /\ page[Len(page)] # << >>
    /\ FullDone =>
          \A p \in DOMAIN opens[1].full :
              LET page == opens[1].full[p]
              IN page # << >> => page[1] # << >> /\ page[Len(page)] # << >>

\* C27 as stated: no two blank lines follow one another, and the pages of
\* paginate_full hold exactly one blank line for each run of blank
\* paragraphs between two non-blank paragraphs.
C27_OneSeparatorPerRun ==
    /\ QuickDone => \A p \in DOMAIN opens[1].initial : NoBlankPair(opens[1].initial[p])
    /\ FullDone =>
          /\ \A p \in DOMAIN opens[1].full : NoBlankPair(opens[1].full[p])
          /\ BlankCount(Concat(opens[1].full)) = SeparatorRuns(opens[1].text)

\* C27, amended: no two blank lines follow one another in a page of either
\* function; the line sequence of paginate_full holds exactly one blank line
\* for each run of blank paragraphs between two non-blank paragraphs (and
\* one more at its end for a run after the last paragraph); its pages hold
\* the separators but for those that fall on a boundary between two pages,
\* at most one per boundary, and hold every other line.
C27_OneSeparatorUnlessAtPageBoundary ==
    /\ QuickDone => \A p \in DOMAIN opens[1].initial : NoBlankPair(opens[1].initial[p])
    /\ FullDone =>
          LET all_lines == FullLines(opens[1].text, << >>, opens[1].font)
              separators == BlankCount(PopBlanks(all_lines))
              shown == Concat(opens[1].full)
          IN /\ \A p \in DOMAIN opens[1].full : NoBlankPair(opens[1].full[p])
             /\ NoBlankPair(all_lines)
             /\ separators = SeparatorRuns(opens[1].text)
             /\ BlankCount(shown) <= separators
             /\ separators - BlankCount(shown) <= Max(Len(opens[1].full) - 1, 0)
             /\ SelectSeq(shown, LAMBDA line : line # << >>)
                    = SelectSeq(all_lines, LAMBDA line : line # << >>)

\* a run of two blank paragraphs that keeps its one blank line inside a page
C27_Witness ==
    /\ FullDone
    /\ Len(opens[1].full) >= 2
    /\ \E i \in 1..(Len(opens[1].text) - 1) :
          opens[1].text[i] = << >> /\ opens[1].text[i + 1] = << >>
    /\ SeparatorRuns(opens[1].text) = 1
    /\ BlankCount(Concat(opens[1].full)) = 1

\* the line budget has cut the text off: the full line sequence is longer
CutOff ==
    Len(FullLines(opens[1].text, << >>, opens[1].font))
        > max_lines_per_page(opens[1].font) * BudgetPages

\* C28: when the budget cuts the text off, the last page of
\* paginate_initial is the page of paginate_full at the same index.
C28_BudgetEndsOnWholePage ==
    FullDone /\ CutOff =>
        LET n == Len(opens[1].initial)
        IN n <= Len(opens[1].full) /\ opens[1].initial[n] = opens[1].full[n]

(* ------------------------- claims on clean_text ------------------------ *)
\* C29: clean_text is idempotent: clean_text(clean_text(x)) = clean_text(x)
\* for every string x.
C29_CleanTextIdempotent ==
    Len(opens) = 1 /\ opens[1].pc = "twice" => opens[1].twice = opens[1].once

(* ----------------------- claims on chapter titles ---------------------- *)
\* the index of the first occurrence of a title in a list that holds it
FirstIndex(list, title) ==
    CHOOSE i \in DOMAIN list : list[i] = title /\ \A j \in 1..(i - 1) : list[j] # title

\* C30: extract_chapters_from_epub returns at most 20 titles (ChapterCap in
\* the model), no title twice and none empty, in the order of their first
\* occurrence in the candidate list.
C30_ChapterListCappedAndUnique ==
    Len(opens) = 1 /\ opens[1].pc = "detected" =>
        LET result == opens[1].chapters
            found == Candidates(opens[1].doc)
        IN /\ Len(result) <= ChapterCap
           /\ \A i, j \in DOMAIN result : i # j => result[i] # result[j]
           /\ \A i \in DOMAIN result : strip(result[i]) # << >>
           /\ \A i \in DOMAIN result : \E k \in DOMAIN found : found[k] = result[i]
           /\ \A i, j \in DOMAIN result :
                 i < j => FirstIndex(found, result[i]) < FirstIndex(found, result[j])

\* more distinct candidates than the cap, one of them twice, from a table of
\* contents too short to do without the headings
C30_Witness ==
    /\ Len(opens) = 1 /\ opens[1].pc = "detected"
    /\ Len(opens[1].chapters) = ChapterCap
    /\ LET found == Candidates(opens[1].doc)
       IN /\ Cardinality({found[k] : k \in DOMAIN found}) > ChapterCap
          /\ \E i, j \in DOMAIN found : i < j /\ found[i] = found[j]
          /\ Len(found) > Len(TocTitles(opens[1].doc.toc))
          /\ TocTitles(opens[1].doc.toc) # << >>

\* the first ChapterCap titles of a candidate list, without repetitions
Listed(found) ==
    LET cleaned_chapters == Deduplicate(found, {}, << >>)
    IN SubSeq(cleaned_chapters, 1, Min(Len(cleaned_chapters), ChapterCap))

\* C31: with at least 5 non-empty titles in the table of contents
\* (TocEnough in the model) the result holds titles of the table of contents
\* only; with fewer it holds the titles found by the heading scan.
C31_TocOrHeadings ==
    Len(opens) = 1 /\ opens[1].pc = "detected" /\ opens[1].doc.readable =>
        IF Len(TocTitles(opens[1].doc.toc)) >= TocEnough
        THEN opens[1].chapters = Listed(TocTitles(opens[1].doc.toc))
        ELSE opens[1].chapters = Listed(ScanHeadings(opens[1].doc.items))

\* the titles of a list
Range(list) == {list[i] : i \in DOMAIN list}

\* the stripped texts of the headings of the items that parse
HeadingTexts(items) ==
    {strip(items[i].headings[k]) :
        i \in {n \in DOMAIN items : items[n].parsed /\ items[n].headings # << >>},
        k \in {1}}

\* C36: in the heading scan a heading is rejected exactly when it is longer
\* than 100 characters (HeadingLimit in the model): every non-empty heading
\* of up to 100 characters is a candidate, no longer one is.  Stated on
\* documents without titles in the table of contents and with fewer
\* candidates than the cap, where the result is the list of candidates.
C36_RejectedOnlyAbove100 ==
    Len(opens) = 1 /\ opens[1].pc = "detected" /\ opens[1].doc.readable
        /\ TocTitles(opens[1].doc.toc) = << >> /\ Len(opens[1].chapters) < ChapterCap =>
        \A t \in HeadingTexts(opens[1].doc.items) :
            t # << >> => (t \in Range(opens[1].chapters) <=> Len(t) <= HeadingLimit)

(* -------------------- claims on the extraction passes ------------------ *)
\* the texts of the items among the first n that parse, in document order
ParsedTexts(doc, n) ==
    LET kept == SelectSeq([i \in 1..n |-> i], LAMBDA i : doc[i].parsed)
    IN [k \in 1..Len(kept) |-> ItemText(doc, kept[k])]

\* the quick pass has stored its artifact
QuickStored == Len(opens) = 1 /\ opens[1].stored_partial

\* C32 as stated: the Partial text comes from at most 30 items (QuickItems
\* in the model), taken in document order, and holds at most 10,000 words
\* (TargetWords).
C32_PartialWithinCaps ==
    QuickStored =>
        /\ Len(opens[1].parts) <= QuickItems
        /\ \E n \in 0..Len(opens[1].doc) : opens[1].parts = ParsedTexts(opens[1].doc, n)
        /\ Len(opens[1].text) <= TargetWords

\* C32, amended: the Partial text comes from at most 30 items, taken in
\* document order from the first on; no item is read once 30 items have
\* been processed or the word count has reached 10,000, so the text without
\* its last item holds fewer than 10,000 words; the item that reaches the
\* target is taken whole.
C32_PartialWithinCapsButLastItem ==
    /\ QuickStored =>
          /\ Len(opens[1].parts) <= QuickItems
          /\ \E n \in 0..Len(opens[1].doc) : opens[1].parts = ParsedTexts(opens[1].doc, n)
          /\ opens[1].text = JoinParts(opens[1].parts)
          /\ opens[1].parts # << >> =>
                Len(JoinParts(SubSeq(opens[1].parts, 1, Len(opens[1].parts) - 1)))
                    < TargetWords
    /\ Len(opens) = 1 /\ opens[1].pc = "quick" =>
          ~QuickEnough(Len(JoinParts(opens[1].parts)), opens[1].items_processed)

\* the quick pass was left at the word target by an item that took the text
\* beyond it, with items still unread
C32_Witness ==
    /\ QuickStored
    /\ Len(opens[1].text) > TargetWords
    /\ Len(opens[1].parts) < QuickItems
    /\ \E n \in 1..(Len(opens[1].doc) - 1) : opens[1].parts = ParsedTexts(opens[1].doc, n)

\* C35: an item that fails to parse is skipped in both passes: it
\* contributes no text, the other items are processed in document order,
\* and the pass goes on to produce and store its artifact.
C35_FailedItemSkipped ==
    /\ Len(opens) = 1 => opens[1].pc # "raised"
    /\ QuickStored =>
          \E n \in 0..Len(opens[1].doc) :
              opens[1].text = JoinParts(ParsedTexts(opens[1].doc, n))
    /\ Len(opens) = 1 /\ opens[1].pc = "done" =>
          /\ opens[1].stored_partial /\ opens[1].stored_full
          /\ opens[1].full_text = JoinParts(ParsedTexts(opens[1].doc, Len(opens[1].doc)))

\* both artifacts stored for a document whose first item fails and whose
\* later items hold text
C35_Witness ==
    /\ Len(opens) = 1 /\ opens[1].pc = "done"
    /\ Len(opens[1].doc) >= 3
    /\ ~opens[1].doc[1].parsed
    /\ opens[1].text # << >>
    /\ Len(opens[1].full_text) > Len(opens[1].text)

(* -------------------- claims on the button state machine --------------- *)
Submenus == {"JUMP_MENU", "CHAPTER_MENU", "BROWSER_MENU", "SLEEP_MENU", "SHUTDOWN_CONFIRM"}

\* the entry of the main menu that opens the submenu
Opener(state) ==
    CASE state = "JUMP_MENU" -> "Jump Pages"
      [] state = "CHAPTER_MENU" -> "Skip to Chapter"
      [] state = "BROWSER_MENU" -> "Select Book"
      [] state = "SLEEP_MENU" -> "Sleep"
      [] state = "SHUTDOWN_CONFIRM" -> "Shutdown"

\* C37: a step that leaves a submenu for the main menu (the Back button,
\* the Back entry of the jump menu, Cancel in the sleep menu and in the
\* shutdown confirmation) puts the selection on the entry of MAIN_MENU
\* that opens that submenu.
C37_BackSelectsOpener ==
    [][\A state \in Submenus :
          (ctl.current_state = state /\ ctl'.current_state = "MAIN_MENU")
          => MAIN_MENU[ctl'.menu_index + 1] = Opener(state)]_vars

\* the list shown in a submenu that is indexed by submenu_index
Shown(state) ==
    CASE state = "JUMP_MENU" -> JUMP_MENU
      [] state = "SLEEP_MENU" -> SLEEP_MENU
      [] state = "SHUTDOWN_CONFIRM" -> SHUTDOWN_MENU

\* C40: after any sequence of button events, book-list and chapter-list
\* updates, current_state is one of the seven declared states, menu_index
\* is below len(main_menu), submenu_index is below the length of the
\* submenu shown, browser_index is below len(browser_menu) with
\* browser_page = browser_index // 6, and in CHAPTER_MENU the chapter list
\* is non-empty with chapter_menu_index below its length.
C40_IndicesInRange ==
    /\ ctl.current_state \in {"READING", "MAIN_MENU"} \cup Submenus
    /\ ctl.menu_index \in 0..(Len(MAIN_MENU) - 1)
    /\ ctl.current_state \in {"JUMP_MENU", "SLEEP_MENU", "SHUTDOWN_CONFIRM"}
       => ctl.submenu_index \in 0..(Len(Shown(ctl.current_state)) - 1)
    /\ ctl.browser_index \in 0..(Len(ctl.browser_menu) - 1)
    /\ ctl.browser_page = ctl.browser_index \div 6
    /\ ctl.current_state = "CHAPTER_MENU"
       => /\ ctl.chapter_menu # << >>
          /\ ctl.chapter_menu_index \in 0..(Len(ctl.chapter_menu) - 1)

(* ------------------------- claims on navigation ------------------------ *)
\* main()'s load_book has returned True and run() is polling
Loaded == fg["main"].pc \in {"run", "swap"}

\* C33: in every state after a successful open, 0 <= current_page <
\* len(pages), whatever the order of page changes, chapter selections and
\* completion swaps, also when the Full page set is shorter than the
\* Partial one or empty.
C33_PageIndexInRange ==
    Loaded => (0 <= current_page /\ current_page < Len(pages))

\* the button thread takes a navigation step that changes the page
Navigates ==
    /\ current_page' # current_page
    /\ \/ \E delta \in Deltas : on_page_change(delta)
       \/ \E chapter_index \in 0..1 : on_chapter_select(chapter_index)

\* every save that was started has ended
SavesLanded == \A k \in DOMAIN saves : saves[k].pc = "done"

\* the save started last is the one of the current page of the open book
LastSaveIsCurrent ==
    /\ saves # << >>
    /\ saves[Len(saves)].book_path = book_path
    /\ saves[Len(saves)].page_num = current_page + 1

\* C34: a navigation that changes the current page starts a bookmark save
\* for the open document with the new page number, counted from 1; once
\* the saves have landed, the save of the current page being the last one
\* started, the bookmark file holds current_page + 1; and a bookmark file
\* that exists is never removed.
C34_NavigationSavesBookmark ==
    [][/\ Navigates
          => saves' = Append(saves, [book_path |-> book_path,
                                      page_num |-> current_page' + 1, pc |-> "open"])
       /\ (SavesLanded /\ LastSaveIsCurrent)'
          => bm_file'[book_path'] = BookmarkRecord(book_path', current_page' + 1)
       /\ \A p \in Paths : bm_file[p].st # "absent" => bm_file'[p].st # "absent"]_vars

(* --------------------- claims on overlapping opens --------------------- *)
\* w is the writer of a quick pass, whose store leaves a Partial artifact
QuickWriter(w) == \E i \in 1..MaxOpens : w = FgWriter(i)

\* C38: a cache file that holds a Full artifact does not come to hold a
\* Partial one unless it is removed first: no step puts a Partial artifact
\* in its place, and no quick pass (of a second open that saw the file
\* Partial, half-written or missing) opens it for writing its Partial
\* artifact.
C38_FullNotOverwrittenByPartial ==
    [][\A key \in DOMAIN cache :
          (Seen(key) = "full" /\ key \in DOMAIN cache')
          => /\ Seen(key)' # "partial"
             /\ ~(cache'[key].st = "writing" /\ QuickWriter(cache'[key].w))]_vars

\* the opens of the open path that started a full pass
Started == {i \in DOMAIN opens : opens[i].path = book_path /\ opens[i].bg # "none"}

\* the newest of them
Newest == CHOOSE n \in Started : \A i \in Started : i <= n

\* the cache file of the open document as it is now
CurrentKey == cache_file(book_path, fs[book_path])

\* several full passes were started for the open path, all have ended,
\* every completion is consumed, no caller has a result left to assign, and
\* a Full artifact lies under the current fingerprint
Settled ==
    /\ Cardinality(Started) >= 2
    /\ \A i \in Started : opens[i].bg \in {"done", "failed"}
    /\ processing_queue = << >>
    /\ fg["main"].pc = "run"
    /\ fg["button"].pc = "idle"
    /\ exists(book_path)
    /\ CurrentKey \in DOMAIN cache
    /\ Seen(CurrentKey) = "full"

\* a swap puts other pages in the place of the Full pages of the newest open
OlderReplacesNewest ==
    /\ fg["main"].pc = "swap" /\ fg'["main"].pc = "run"
    /\ Started # {}
    /\ opens[Newest].bg = "done"
    /\ pages = Completion(Newest).pages
    /\ pages' # pages

\* C39: when several full passes were started for the open path, then
\* once all have ended and every completion is consumed the foreground
\* pages are the pages of the Full artifact under the current fingerprint,
\* and the completion of an older open never replaces the result of the
\* newest one.
C39_NewestFullPagesWin ==
    [][/\ Settled' => pages' = cache'[CurrentKey'].data.pages
       /\ ~OlderReplacesNewest]_vars

====
